---- MODULE Spec2Model ----
(***************************************************************************)
(* Button decoding of the Buzz controller library.                         *)
(*                                                                         *)
(* The decoder is the function parseButtonPress together with the module   *)
(* variable previousButtonStates it reads and replaces.  A report is a     *)
(* byte buffer, modelled as a sequence of bytes (buffer index n is         *)
(* sequence index n + 1).  An event is the record the code pushes, without *)
(* its timestamp: the timestamp is the wall clock read at the push and no  *)
(* decision of the code depends on it.                                     *)
(***************************************************************************)
EXTENDS Integers, Sequences, FiniteSets, TLC

VARIABLES
    previousButtonStates,  \* the module variable: stateKey -> boolean
    op,                    \* the operation of the decoder that acted last
    data,                  \* the buffer handed to the last parseButtonPress call
    result,                \* what that call returned
    before,                \* previousButtonStates when that call started
    lastValid,             \* the last buffer of at least 5 bytes parsed so far
    valid,                 \* what the last isValidButtonPress call returned
    lastAction,            \* per button: the action of the last event returned
                           \* for it by the calls that are kept track of
    controllerInfo,        \* per instance: controllerInfo.device?.path is set
    device,                \* per instance: this.device, a handle or NoDevice
    handles,               \* the HID objects created so far
    delivered,             \* per listener of the handle that emitted the last
                           \* 'data' event: the onButtonEvent call made
    alone,                 \* per instance: the snapshot of a decoder of its own
    expected,              \* delivered, had the instance a decoder of its own
    streamCall,            \* the method of an instance called last, and what
                           \* it returned
    onRaw,                 \* per HID object and listener: onRawData was given
    log,                   \* the last 'data' event and the calls the
                           \* listeners made for it, in the order they happened
    ledCall,               \* the LED function or method called last
    ledInput,              \* its argument
    ledOutput,             \* what it returned
    written,               \* the device.write calls it made: handle and bytes
    writeReturned,         \* what writeToHidDevice returned to an LED method
    timers,                \* the pending timers, in the order they were set
    blinkLedsInterval,           \* the module variables of the light shows:
    blinkEveryOtherLedInterval,  \* an interval timer or NoTimer,
    binaryCountingInterval,
    binaryCounter,               \* and the counter of the binary show
    promise,               \* the promise of the last waitForBuzzController call
    waitArgs,              \* its timeoutMs and pollIntervalMs
    elapsed,               \* Date.now() - startTime of the call
    pollTimer,             \* the pending setTimeout(poll, ...), units to go
    detected,              \* what detectBuzzControllers returned to the last poll
    hidCall,               \* the wrapper function of hid-communication called last
    hidInput,              \* its arguments
    hidLayer,              \* what node-hid did in it: returned a value or threw
    hidReturn              \* what the wrapper did: returned a value or threw

vars == <<previousButtonStates, op, data, result, before, lastValid, valid,
          lastAction,
          controllerInfo, device, handles, delivered, alone, expected,
          streamCall, onRaw, log,
          ledCall, ledInput, ledOutput, written, writeReturned, timers,
          blinkLedsInterval, blinkEveryOtherLedInterval,
          binaryCountingInterval, binaryCounter,
          promise, waitArgs, elapsed, pollTimer, detected,
          hidCall, hidInput, hidLayer, hidReturn>>

decoderVars ==
    <<previousButtonStates, op, data, result, before, lastValid, valid,
      lastAction>>

listenerVars == <<streamCall, onRaw, log>>

streamVars ==
    <<controllerInfo, device, handles, delivered, alone, expected,
      listenerVars>>

patternVars == <<ledCall, ledInput, ledOutput>>

showVars ==
    <<timers, blinkLedsInterval, blinkEveryOtherLedInterval,
      binaryCountingInterval, binaryCounter>>

waitVars == <<promise, waitArgs, elapsed, pollTimer, detected>>

hidVars == <<hidCall, hidInput, hidLayer, hidReturn>>

ledVars == <<patternVars, written, writeReturned, showVars, waitVars, hidVars>>

----------------------------------------------------------------------------
(* Bounds of the model. *)

\* Most buttons held down at once in a generated report.
MaxPressed == 2

\* Most handleData listeners registered on one handle.
MaxListeners == 2

\* Most HID objects created in one run.
MaxHandles == 2

\* Most reports emitted where the reports are numbered.
MaxReports == 3

\* The largest number handed to the pattern functions.
MaxNumber == 6

\* Most timers pending when a method is called or a show started: a call
\* is made with fewer pending.
MaxTimers == 1

\* Longest blinkBuzzers call, in time units.
MaxDuration == 2

\* Longest timeoutMs and pollIntervalMs of a waitForBuzzController call, in
\* time units.
MaxTimeout == 4

MaxPoll == 3

\* Most devices HID.devices() lists.
MaxDevices == 3

\* Longest list of numbers handed to createLedState, but for the list of
\* the test.
MaxList == 2

----------------------------------------------------------------------------
(* The tables of button-mapping. *)

BUTTON_NAMES ==
    (0 :> "Red Buzzer") @@ (1 :> "Blue") @@ (2 :> "Orange") @@
    (3 :> "Green") @@ (4 :> "Yellow")

\* Faulty variant of getButtonName: the table of names is not consulted.
getButtonNameNumbered(buttonNumber) == "Button " \o ToString(buttonNumber)

getButtonName(buttonNumber) ==
    IF buttonNumber \in DOMAIN BUTTON_NAMES
    THEN BUTTON_NAMES[buttonNumber]
    ELSE "Button " \o ToString(buttonNumber)

\* Faulty variant of CONTROLLER_BIT_MAPPING: controller 0 button 1 reads the
\* bit of controller 0 button 0.
CONTROLLER_BIT_MAPPING_Shared ==
    (0 :> ((0 :> [byte |-> 2, bit |-> 0]) @@ (1 :> [byte |-> 2, bit |-> 0]) @@
           (2 :> [byte |-> 2, bit |-> 3]) @@ (3 :> [byte |-> 2, bit |-> 2]) @@
           (4 :> [byte |-> 2, bit |-> 1]))) @@
    (1 :> ((0 :> [byte |-> 2, bit |-> 5]) @@ (1 :> [byte |-> 3, bit |-> 1]) @@
           (2 :> [byte |-> 3, bit |-> 0]) @@ (3 :> [byte |-> 2, bit |-> 7]) @@
           (4 :> [byte |-> 2, bit |-> 6]))) @@
    (2 :> ((0 :> [byte |-> 3, bit |-> 2]) @@ (1 :> [byte |-> 3, bit |-> 6]) @@
           (2 :> [byte |-> 3, bit |-> 5]) @@ (3 :> [byte |-> 3, bit |-> 4]) @@
           (4 :> [byte |-> 3, bit |-> 3]))) @@
    (3 :> ((0 :> [byte |-> 3, bit |-> 7]) @@ (1 :> [byte |-> 4, bit |-> 3]) @@
           (2 :> [byte |-> 4, bit |-> 2]) @@ (3 :> [byte |-> 4, bit |-> 1]) @@
           (4 :> [byte |-> 4, bit |-> 0])))

CONTROLLER_BIT_MAPPING ==
    (0 :> ((0 :> [byte |-> 2, bit |-> 0]) @@ (1 :> [byte |-> 2, bit |-> 4]) @@
           (2 :> [byte |-> 2, bit |-> 3]) @@ (3 :> [byte |-> 2, bit |-> 2]) @@
           (4 :> [byte |-> 2, bit |-> 1]))) @@
    (1 :> ((0 :> [byte |-> 2, bit |-> 5]) @@ (1 :> [byte |-> 3, bit |-> 1]) @@
           (2 :> [byte |-> 3, bit |-> 0]) @@ (3 :> [byte |-> 2, bit |-> 7]) @@
           (4 :> [byte |-> 2, bit |-> 6]))) @@
    (2 :> ((0 :> [byte |-> 3, bit |-> 2]) @@ (1 :> [byte |-> 3, bit |-> 6]) @@
           (2 :> [byte |-> 3, bit |-> 5]) @@ (3 :> [byte |-> 3, bit |-> 4]) @@
           (4 :> [byte |-> 3, bit |-> 3]))) @@
    (3 :> ((0 :> [byte |-> 3, bit |-> 7]) @@ (1 :> [byte |-> 4, bit |-> 3]) @@
           (2 :> [byte |-> 4, bit |-> 2]) @@ (3 :> [byte |-> 4, bit |-> 1]) @@
           (4 :> [byte |-> 4, bit |-> 0])))

\* The 20 (controller, button) pairs of the table.
AllLoci ==
    {<<c, b>> : c \in DOMAIN CONTROLLER_BIT_MAPPING, b \in DOMAIN BUTTON_NAMES}

\* Position of a locus in the report, bytes first: 8 * byte + bit.
BitPosition(locus) ==
    LET mapping == CONTROLLER_BIT_MAPPING[locus[1]][locus[2]]
    IN  8 * mapping.byte + mapping.bit

\* Object.entries of an object with integer keys lists them in ascending
\* order: the keys of a set of naturals as an ascending sequence.
RECURSIVE AscendingKeys(_)
AscendingKeys(keys) ==
    IF keys = {} THEN <<>>
    ELSE LET least == CHOOSE k \in keys : \A j \in keys : k <= j
         IN  <<least>> \o AscendingKeys(keys \ {least})

RECURSIVE Flatten(_)
Flatten(seqs) ==
    IF seqs = <<>> THEN <<>> ELSE Head(seqs) \o Flatten(Tail(seqs))

\* Faulty variant of MappingEntries: the loci in the order of their bits in
\* the report instead of the order of the table's keys.
MappingEntriesByBit ==
    SortSeq(Flatten([c \in 1..4 |-> [b \in 1..5 |-> <<c - 1, b - 1>>]]),
            LAMBDA x, y : BitPosition(x) < BitPosition(y))

\* The entries of one inner loop: the buttons of a controller, ascending.
ButtonEntries(controller, buttons) ==
    [j \in DOMAIN buttons |-> <<controller, buttons[j]>>]

ControllerEntries(controllers) ==
    [i \in DOMAIN controllers |->
        ButtonEntries(controllers[i],
            AscendingKeys(DOMAIN CONTROLLER_BIT_MAPPING[controllers[i]]))]

\* The order in which the two nested loops over Object.entries visit the
\* table: controllers ascending, and the buttons of each ascending.
MappingEntries ==
    Flatten(ControllerEntries(AscendingKeys(DOMAIN CONTROLLER_BIT_MAPPING)))

\* `${controller}-${button}`
stateKey(controller, button) ==
    ToString(controller) \o "-" \o ToString(button)

AllKeys == {stateKey(l[1], l[2]) : l \in AllLoci}

\* previousButtonStates as the module is loaded: {}
EmptyStates == [k \in {} |-> FALSE]

----------------------------------------------------------------------------
(* parseButtonPress. *)

\* Faulty variant of tooShort: one byte less is asked for.
tooShortOffByOne(buffer) == Len(buffer) < 4

\* Faulty variant of tooShort: every length but 5 is turned away.
notFiveBytes(buffer) == Len(buffer) # 5

\* data.length < 5
tooShort(buffer) == Len(buffer) < 5

\* Faulty variant of isPressed: the byte is shifted and not masked.
isPressedNoMask(bytes, mapping) ==
    IF mapping.byte + 1 \in DOMAIN bytes
    THEN bytes[mapping.byte + 1] \div (2 ^ mapping.bit) # 0
    ELSE FALSE

\* bytes[mapping.byte], tested against undefined, and its bit
isPressed(bytes, mapping) ==
    IF mapping.byte + 1 \in DOMAIN bytes
    THEN (bytes[mapping.byte + 1] \div (2 ^ mapping.bit)) % 2 # 0
    ELSE FALSE

\* Faulty variant of wasPressed: the previous state is never consulted.
wasPressedNever(states, key) == FALSE

\* previousButtonStates[stateKey] || false
wasPressed(states, key) ==
    IF key \in DOMAIN states THEN states[key] ELSE FALSE

\* Faulty variant of stateChange: the release branch is lost.
stateChangeNoRelease(pressed, was) ==
    IF pressed /\ ~was THEN "pressed" ELSE "none"

\* Faulty variant of stateChange: the level is reported, not the edge.
stateChangeLevel(pressed, was) ==
    IF pressed THEN "pressed" ELSE IF was THEN "released" ELSE "none"

\* The if / else if that decides whether an event is pushed, and which.
stateChange(pressed, was) ==
    IF pressed /\ ~was THEN "pressed"
    ELSE IF ~pressed /\ was THEN "released"
    ELSE "none"

\* The object pushed onto events (its timestamp left out).
ButtonEvent(controller, button, action) ==
    [controller |-> controller, button |-> button,
     buttonName |-> getButtonName(button), action |-> action]

\* What one pass of the inner loop has at hand: the controller, the button,
\* the stateKey and the mapping.
LoopEntry(locus) ==
    [controller |-> locus[1], button |-> locus[2],
     stateKey |-> stateKey(locus[1], locus[2]),
     mapping |-> CONTROLLER_BIT_MAPPING[locus[1]][locus[2]]]

EachEntry(entries) == [i \in DOMAIN entries |-> LoopEntry(entries[i])]

LoopEntries == EachEntry(MappingEntries)

\* events.push(...) in the branch taken, if one is.
pushed(entry, change) ==
    IF change = "none" THEN <<>>
    ELSE <<ButtonEvent(entry.controller, entry.button, change)>>

\* One pass of the inner loop: what it pushes.
loopPass(entry, states, bytes) ==
    pushed(entry, stateChange(isPressed(bytes, entry.mapping),
                              wasPressed(states, entry.stateKey)))

\* The passes from entry i on: the events pushed, in the order pushed.
RECURSIVE eventsFrom(_, _, _, _)
eventsFrom(entries, i, states, bytes) ==
    IF i > Len(entries) THEN <<>>
    ELSE loopPass(entries[i], states, bytes)
         \o eventsFrom(entries, i + 1, states, bytes)

MappingOfKey ==
    [key \in AllKeys |->
        LET locus == CHOOSE l \in AllLoci : stateKey(l[1], l[2]) = key
        IN  CONTROLLER_BIT_MAPPING[locus[1]][locus[2]]]

\* currentButtonStates when the loops are done.
currentButtonStates(bytes) ==
    [key \in AllKeys |->
        isPressed(bytes, MappingOfKey[key])]

\* Faulty variant of updatedStates: the snapshot is replaced only when an
\* event was pushed.
updatedStatesOnEvent(states, current, events) ==
    IF Len(events) > 0 THEN current ELSE states

\* Faulty variant of updatedStates: the snapshot is never replaced.
updatedStatesStale(states, current, events) == states

\* previousButtonStates = currentButtonStates
updatedStates(states, current, events) == current

\* Faulty variant of rejectedStates: a short buffer clears the snapshot.
rejectedStatesCleared(states) == EmptyStates

\* The early return leaves previousButtonStates as it is.
rejectedStates(states) == states

\* The value null, and a list of events, as return values.
Null == [null |-> TRUE, events |-> <<>>]

EventList(events) == [null |-> FALSE, events |-> events]

\* Faulty variant of returnValue: the list is returned also when empty.
returnValueList(events) == EventList(events)

\* events.length > 0 ? events : null
returnValue(events) ==
    IF Len(events) > 0 THEN EventList(events) ELSE Null

\* data.subarray(start, end): the end is cut to the length of the buffer.
subarray(buffer, start, end) ==
    SubSeq(buffer, start + 1, IF end < Len(buffer) THEN end ELSE Len(buffer))

\* After the loops: the snapshot is replaced and the value returned.
loopsDone(states, current, events) ==
    [ret |-> returnValue(events),
     states |-> updatedStates(states, current, events)]

parseBytes(states, bytes) ==
    loopsDone(states, currentButtonStates(bytes),
              eventsFrom(LoopEntries, 1, states, bytes))

\* parseButtonPress(buffer) called with previousButtonStates = states: the
\* value returned and the value previousButtonStates has afterwards.
parseButtonPress(states, buffer) ==
    IF tooShort(buffer)
    THEN [ret |-> Null, states |-> rejectedStates(states)]
    ELSE parseBytes(states, subarray(buffer, 0, 5))

\* events !== null && events.length > 0, for the value parseButtonPress
\* returned.
eventsFound(ret) == ~ret.null /\ Len(ret.events) > 0

\* isValidButtonPress once its call of parseButtonPress has come to r.
parsedIsValid(r) == [ret |-> eventsFound(r.ret), parsed |-> r]

\* Faulty variant of isValidButtonPress: the snapshot is put back as found.
isValidButtonPressPure(states, buffer) ==
    [ret |-> eventsFound(parseButtonPress(states, buffer).ret),
     parsed |-> [ret |-> parseButtonPress(states, buffer).ret,
                 states |-> states]]

\* isValidButtonPress(buffer) called with previousButtonStates = states:
\* the boolean returned, and what the call of parseButtonPress came to.
isValidButtonPress(states, buffer) ==
    parsedIsValid(parseButtonPress(states, buffer))

----------------------------------------------------------------------------
(* The buffers the device layer hands over. *)

\* The value of byte 4 of a report with no button of controller 3 pressed.
BaseByte == 240

\* Loci of every controller and of every byte of the report, some of them
\* with a bit order opposite to their button order: the ones pressed
\* together.
FocusLoci ==
    {<<0, 1>>, <<0, 4>>, <<1, 1>>, <<2, 0>>, <<3, 4>>}

PressedSets ==
    {{}} \cup {{l} : l \in AllLoci}
         \cup {S \in SUBSET FocusLoci : Cardinality(S) <= MaxPressed}

\* Byte n of the report in which exactly the loci of S are pressed.
RECURSIVE ByteOf(_, _)
ByteOf(S, n) ==
    IF S = {} THEN 0
    ELSE LET l == CHOOSE x \in S : TRUE
             mapping == CONTROLLER_BIT_MAPPING[l[1]][l[2]]
         IN  (IF mapping.byte = n THEN 2 ^ mapping.bit ELSE 0)
             + ByteOf(S \ {l}, n)

Report(S) ==
    <<0, 0, ByteOf(S, 2), ByteOf(S, 3), BaseByte + ByteOf(S, 4)>>

\* The same buttons pressed, in a report of 6 bytes whose bytes 0 and 1 and
\* whose upper half of byte 4 are different.
OtherReport(S) ==
    <<255, 127, ByteOf(S, 2), ByteOf(S, 3), ByteOf(S, 4), 7>>

\* Reports of 5 bytes, and of 6: the device layer may hand over more.
Reports ==
    {Report(S) : S \in PressedSets} \cup
    {Report(S) \o <<255>> : S \in {{}} \cup {{l} : l \in FocusLoci}} \cup
    {OtherReport(S) : S \in {{}} \cup {{l} : l \in FocusLoci}}

\* Buffers of fewer than 5 bytes: the empty one and cut reports.
ShortBuffers ==
    {SubSeq(Report({l}), 1, n) : l \in FocusLoci, n \in {0, 3, 4}}

Buffers == Reports \cup ShortBuffers

----------------------------------------------------------------------------
(* The decoder called directly. *)

Instances == {"a", "b"}

\* What a call comes to: a value, null or undefined returned, or an
\* exception thrown.
Returned(value) == [value |-> value, kind |-> "value"]

ReturnedNull == [kind |-> "null"]

Undefined == [kind |-> "undefined"]

Thrown == [kind |-> "throw"]

\* No waitForBuzzController call was made yet: no promise.
NoPromise == [state |-> "none", value |-> "none", settled |-> 0]

NoDevice == 0

\* No method of an instance has been called yet.
NoCall == [method |-> "none", instance |-> "none", returned |-> FALSE]

NoTimer == 0

Init ==
    /\ previousButtonStates = EmptyStates
    /\ op = "init"
    /\ data = <<>>
    /\ result = Null
    /\ before = EmptyStates
    /\ lastValid = <<>>
    /\ lastAction = [key \in AllKeys |-> "none"]
    /\ valid = FALSE
    /\ controllerInfo \in [Instances -> BOOLEAN]
    /\ device = [i \in Instances |-> NoDevice]
    /\ handles = <<>>
    /\ delivered = <<>>
    /\ alone = [i \in Instances |-> EmptyStates]
    /\ expected = <<>>
    /\ streamCall = NoCall
    /\ onRaw = [h \in 1..MaxHandles |-> <<>>]
    /\ log = <<>>
    /\ ledCall = "none"
    /\ ledInput = <<>>
    /\ ledOutput = <<>>
    /\ written = <<>>
    /\ writeReturned = <<>>
    /\ timers = <<>>
    /\ blinkLedsInterval = NoTimer
    /\ blinkEveryOtherLedInterval = NoTimer
    /\ binaryCountingInterval = NoTimer
    /\ binaryCounter = 0
    /\ promise = NoPromise
    /\ waitArgs = [timeoutMs |-> 0, pollIntervalMs |-> 0]
    /\ elapsed = 0
    /\ pollTimer = <<>>
    /\ detected = <<>>
    /\ hidCall = "none"
    /\ hidInput = <<>>
    /\ hidLayer = Undefined
    /\ hidReturn = Undefined

\* One call of parseButtonPress, r being what it comes to: the module
\* variable is replaced and the call is recorded.
Called(r, buffer) ==
    /\ previousButtonStates' = r.states
    /\ data' = buffer
    /\ result' = r.ret
    /\ before' = previousButtonStates
    /\ lastValid' = IF Len(buffer) >= 5 THEN buffer ELSE lastValid

ParseCall(buffer) ==
    /\ Called(parseButtonPress(previousButtonStates, buffer), buffer)
    /\ op' = "parseButtonPress"
    /\ UNCHANGED <<valid, lastAction>>

\* isValidButtonPress(buffer) called: parseButtonPress runs inside it, and
\* the boolean it returns is recorded.
IsValidCall(v, buffer) ==
    /\ Called(v.parsed, buffer)
    /\ op' = "isValidButtonPress"
    /\ valid' = v.ret
    /\ UNCHANGED lastAction

\* The buffers isValidButtonPress is asked about: the empty one, a cut
\* report, and reports with no, one and two buttons pressed.
ValidityBuffers ==
    {<<>>, <<0, 0, 1>>, Report({}), Report({<<0, 0>>}),
     Report({<<0, 1>>, <<3, 4>>})}

IsValidButtonPress ==
    \E buffer \in ValidityBuffers :
        /\ IsValidCall(isValidButtonPress(previousButtonStates, buffer), buffer)
        /\ UNCHANGED <<streamVars, ledVars>>

ParseButtonPress ==
    \E buffer \in Buffers :
        /\ ParseCall(buffer)
        /\ UNCHANGED <<streamVars, ledVars>>

\* The calls of parseButtonPress of which the events are kept track of:
\* each event returned is the last of its button, in the order of the list.
RECURSIVE recorded(_, _)
recorded(last, events) ==
    IF events = <<>> THEN last
    ELSE recorded([last EXCEPT
                      ![stateKey(events[1].controller, events[1].button)] =
                          events[1].action],
                  Tail(events))

RecordedCall(r, buffer) ==
    /\ Called(r, buffer)
    /\ op' = "parseButtonPress"
    /\ lastAction' = recorded(lastAction, r.ret.events)
    /\ UNCHANGED valid

\* The reports and cut reports of the calls kept track of: the buttons of
\* FocusLoci, up to MaxPressed of them pressed.
HistoryBuffers ==
    {Report(S) : S \in {T \in SUBSET FocusLoci : Cardinality(T) <= MaxPressed}}
        \cup ShortBuffers

ParseButtonPressRecorded ==
    \E buffer \in HistoryBuffers :
        /\ RecordedCall(parseButtonPress(previousButtonStates, buffer), buffer)
        /\ UNCHANGED <<streamVars, ledVars>>

DecoderInit ==
    /\ Init
    /\ controllerInfo = [i \in Instances |-> TRUE]

Next ==
    \/ ParseButtonPress
    \/ IsValidButtonPress

Spec == DecoderInit /\ [][Next]_vars

\* parseButtonPress called over and over, the events it returns kept track
\* of.
NextHistory == ParseButtonPressRecorded

SpecHistory == DecoderInit /\ [][NextHistory]_vars

----------------------------------------------------------------------------
(* BuzzControllerInstance: connections and parsed listeners.  Every        *)
(* instance of the process calls the one parseButtonPress of the module.   *)

\* new HID.HID(path) for an instance: an open handle without listeners.
NewHandle(i) == [open |-> TRUE, owner |-> i, listeners |-> 0]

\* connect(): without a device path nothing is opened; otherwise
\* this.device becomes what openHidDevice returns, a new handle or null.
connectReturning(i, returned) ==
    /\ \/ /\ ~controllerInfo[i]
          /\ returned = FALSE
          /\ UNCHANGED <<device, handles>>
       \/ /\ controllerInfo[i]
          /\ Len(handles) < MaxHandles
          /\ handles' = Append(handles, NewHandle(i))
          /\ device' = [device EXCEPT ![i] = Len(handles) + 1]
          /\ returned = (device'[i] # NoDevice)
       \/ /\ controllerInfo[i]
          /\ device' = [device EXCEPT ![i] = NoDevice]
          /\ returned = (device'[i] # NoDevice)
          /\ UNCHANGED handles
    /\ UNCHANGED <<decoderVars, controllerInfo, delivered, alone, expected>>
    /\ UNCHANGED ledVars

connect(i) ==
    /\ \E returned \in BOOLEAN : connectReturning(i, returned)
    /\ UNCHANGED listenerVars

\* disconnect(): the handle held, if any, is closed and let go.
disconnectOf(i) ==
    /\ IF device[i] # NoDevice
       THEN /\ handles' = [handles EXCEPT ![device[i]].open = FALSE]
            /\ device' = [device EXCEPT ![i] = NoDevice]
       ELSE UNCHANGED <<device, handles>>
    /\ UNCHANGED <<decoderVars, controllerInfo, delivered, alone, expected>>
    /\ UNCHANGED ledVars

disconnect(i) ==
    /\ disconnectOf(i)
    /\ UNCHANGED listenerVars

\* setupParsedButtonListeners(): handleData is registered for 'data' on the
\* handle held; without a handle nothing is registered.
setupParsedButtonListeners(i) ==
    /\ IF device[i] # NoDevice
       THEN /\ handles[device[i]].listeners < MaxListeners
            /\ handles' = [handles EXCEPT ![device[i]].listeners = @ + 1]
       ELSE UNCHANGED handles
    /\ UNCHANGED <<decoderVars, controllerInfo, device, delivered, alone,
                   expected, listenerVars, ledVars>>

\* What handleData does with what parseButtonPress returned: onButtonEvent
\* is called with the list when there is one and it is not empty.
onButtonEventCall(ret) ==
    IF ~ret.null /\ Len(ret.events) > 0
    THEN [called |-> TRUE, events |-> ret.events]
    ELSE [called |-> FALSE, events |-> <<>>]

\* One run of handleData after the runs so far: parseButtonPress is called
\* and onButtonEvent, if called, is noted.
handled(sofar, r) ==
    [states |-> r.states,
     calls |-> Append(sofar.calls, onButtonEventCall(r.ret)),
     ret |-> r.ret,
     found |-> sofar.states]

handleData(sofar, buffer) ==
    handled(sofar, parseButtonPress(sofar.states, buffer))

\* A 'data' event on a handle with n listeners: handleData runs n times, in
\* the order of registration.  The snapshot left, the onButtonEvent call of
\* each listener, and the last call of parseButtonPress with the snapshot
\* it found.
RECURSIVE emitData(_, _, _)
emitData(n, states, buffer) ==
    IF n = 0
    THEN [states |-> states, calls |-> <<>>, ret |-> Null, found |-> states]
    ELSE handleData(emitData(n - 1, states, buffer), buffer)

\* The buffers the handles emit.
StreamBuffers ==
    {Report({}), Report({<<0, 0>>}), <<0, 0, 1>>}

\* What a 'data' event leaves: shared is what the listeners did with the
\* module's snapshot, own what they do with a snapshot that only the
\* reports of instance i pass through.
Emitted(i, shared, own, buffer) ==
    /\ op' = "parseButtonPress"
    /\ previousButtonStates' = shared.states
    /\ data' = buffer
    /\ result' = shared.ret
    /\ before' = shared.found
    /\ lastValid' = IF Len(buffer) >= 5 THEN buffer ELSE lastValid
    /\ valid' = valid
    /\ lastAction' = lastAction
    /\ delivered' = shared.calls
    /\ alone' = [alone EXCEPT ![i] = own.states]
    /\ expected' = own.calls

\* An open handle with listeners emits a report.
HidData(h, buffer) ==
    /\ handles[h].open
    /\ handles[h].listeners > 0
    /\ Emitted(handles[h].owner,
               emitData(handles[h].listeners, previousButtonStates, buffer),
               emitData(handles[h].listeners, alone[handles[h].owner], buffer),
               buffer)
    /\ UNCHANGED <<controllerInfo, device, handles, listenerVars, ledVars>>

NextStreams ==
    \/ \E i \in Instances : connect(i)
    \/ \E i \in Instances : disconnect(i)
    \/ \E i \in Instances : setupParsedButtonListeners(i)
    \/ \E h \in DOMAIN handles : \E buffer \in StreamBuffers : HidData(h, buffer)

SpecStreams == Init /\ [][NextStreams]_vars

----------------------------------------------------------------------------
(* The calls of an instance's methods with what they return, and the calls *)
(* the listeners make, in the order they happen.                           *)

MethodCall(method, i, returned) ==
    [method |-> method, instance |-> i, returned |-> returned]

\* Faulty variant of isConnected: a device once opened counts for ever.
isConnectedOnceOpened(i) == \E h \in DOMAIN handles : handles[h].owner = i

\* isConnected(): this.device !== null
isConnected(i) == device[i] # NoDevice

\* connect() called, and what it returned.
Connect(i) ==
    /\ \E returned \in BOOLEAN :
          /\ connectReturning(i, returned)
          /\ streamCall' = MethodCall("connect", i, returned)
    /\ UNCHANGED <<onRaw, log>>

\* disconnect() called: it returns nothing.
Disconnect(i) ==
    /\ disconnectOf(i)
    /\ streamCall' = MethodCall("disconnect", i, FALSE)
    /\ UNCHANGED <<onRaw, log>>

\* isConnected() called, and what it returned.
IsConnected(i) ==
    /\ streamCall' = MethodCall("isConnected", i, isConnected(i))
    /\ UNCHANGED <<decoderVars, controllerInfo, device, handles, delivered,
                   alone, expected, onRaw, log, ledVars>>

\* setupParsedButtonListeners(onButtonEvent, onRawData), onRawData given
\* or not: without a device nothing is registered; otherwise handleData is
\* one more 'data' listener of the device.
SetupParsedButtonListeners(i, raw) ==
    /\ IF device[i] # NoDevice
       THEN /\ handles[device[i]].listeners < MaxListeners
            /\ handles' = [handles EXCEPT ![device[i]].listeners = @ + 1]
            /\ onRaw' = [onRaw EXCEPT ![device[i]] = Append(@, raw)]
       ELSE UNCHANGED <<handles, onRaw>>
    /\ UNCHANGED <<decoderVars, controllerInfo, device, delivered, alone,
                   expected, streamCall, log, ledVars>>

\* An entry of the log: a 'data' event of a handle (with the number of its
\* listeners) or a call made by listener k for report n.
Entry(call, n, h, k, arg) ==
    [call |-> call, report |-> n, handle |-> h, listener |-> k, arg |-> arg]

\* Faulty variant of handleDataCalls: the raw data callback comes after the
\* parse.
handleDataCallsParseFirst(n, h, k, raw, buffer, call) ==
    <<Entry("parseButtonPress", n, h, k, buffer)>>
        \o (IF raw THEN <<Entry("onRawData", n, h, k, buffer)>> ELSE <<>>)
        \o (IF call.called
            THEN <<Entry("onButtonEvent", n, h, k, call.events)>>
            ELSE <<>>)

\* The calls of one run of handleData, listener k of handle h, for report
\* n: onRawData if given, parseButtonPress, and onButtonEvent if the
\* listener's onButtonEventCall says so.
handleDataCalls(n, h, k, raw, buffer, call) ==
    (IF raw THEN <<Entry("onRawData", n, h, k, buffer)>> ELSE <<>>)
        \o <<Entry("parseButtonPress", n, h, k, buffer)>>
        \o (IF call.called
            THEN <<Entry("onButtonEvent", n, h, k, call.events)>>
            ELSE <<>>)

\* The runs of the listeners 1..k of handle h, in the order registered.
RECURSIVE listenersCalls(_, _, _, _, _, _)
listenersCalls(n, h, k, raws, buffer, calls) ==
    IF k = 0 THEN <<>>
    ELSE listenersCalls(n, h, k - 1, raws, buffer, calls)
             \o handleDataCalls(n, h, k, raws[k], buffer, calls[k])

\* The number of reports emitted so far: that of the last one.
ReportsLogged(entries) ==
    IF entries = <<>> THEN 0 ELSE entries[1].report

\* The 'data' event of report n is emitted once the listeners have returned
\* from the one before: the log starts anew.
Logged(n, h, buffer) ==
    /\ log' = <<Entry("data", n, h, handles[h].listeners, buffer)>>
                  \o listenersCalls(n, h, handles[h].listeners, onRaw[h],
                                    buffer, delivered')

\* An open handle with listeners emits a report, the calls are logged.
HidDataLogged(h, buffer) ==
    /\ handles[h].open
    /\ handles[h].listeners > 0
    /\ ReportsLogged(log) < MaxReports
    /\ Emitted(handles[h].owner,
               emitData(handles[h].listeners, previousButtonStates, buffer),
               emitData(handles[h].listeners, alone[handles[h].owner], buffer),
               buffer)
    /\ Logged(ReportsLogged(log) + 1, h, buffer)
    /\ UNCHANGED <<controllerInfo, device, handles, streamCall, onRaw,
                   ledVars>>

\* Instance a has a device path, instance b has none.
ListenerInit ==
    /\ Init
    /\ controllerInfo = [i \in Instances |-> i = "a"]

\* The listeners of an instance that connects and disconnects.
NextListeners ==
    \/ \E i \in Instances : connect(i)
    \/ \E i \in Instances : disconnect(i)
    \/ \E i \in Instances : \E raw \in BOOLEAN :
          SetupParsedButtonListeners(i, raw)
    \/ \E h \in DOMAIN handles : \E buffer \in StreamBuffers :
          HidDataLogged(h, buffer)

SpecListeners == ListenerInit /\ [][NextListeners]_vars

\* The connection of the instances, with and without a device path.
NextConnection ==
    \/ \E i \in Instances : Connect(i)
    \/ \E i \in Instances : Disconnect(i)
    \/ \E i \in Instances : IsConnected(i)

SpecConnection == Init /\ [][NextConnection]_vars

----------------------------------------------------------------------------
(* The LED states and commands: BuzzLedPatterns and BuzzControllerUtils.   *)
(* An LED state is an object with the keys 0..3, or some of them, each a   *)
(* boolean: a function from a subset of 0..3 to BOOLEAN.                   *)

Numbers == -1..MaxNumber

Channels == 0..3

\* The set of LED states: every key may be missing.
LedStates == UNION {[keys -> BOOLEAN] : keys \in SUBSET Channels}

\* Faulty variant of channelByte: a missing channel counts as lit.
channelByteMissingLit(ledState, n) ==
    IF n \in DOMAIN ledState /\ ~ledState[n] THEN 0 ELSE 255

\* ledState[n] ? 0xff : 0x00, a missing key reading as undefined
channelByte(ledState, n) ==
    IF n \in DOMAIN ledState /\ ledState[n] THEN 255 ELSE 0

ledStateToCommand(ledState) ==
    <<0, 0, channelByte(ledState, 0), channelByte(ledState, 1),
      channelByte(ledState, 2), channelByte(ledState, 3)>>

\* Faulty variant of playerReady: the player number is taken as a channel.
playerReadyZeroBased(playerNumber) ==
    (0 :> (playerNumber = 0)) @@ (1 :> (playerNumber = 1)) @@
    (2 :> (playerNumber = 2)) @@ (3 :> (playerNumber = 3))

playerReady(playerNumber) ==
    (0 :> (playerNumber = 1)) @@ (1 :> (playerNumber = 2)) @@
    (2 :> (playerNumber = 3)) @@ (3 :> (playerNumber = 4))

\* Faulty variant of countdown: each channel is lit one count too late.
countdownStrict(count) ==
    (0 :> (count > 1)) @@ (1 :> (count > 2)) @@
    (2 :> (count > 3)) @@ (3 :> (count > 4))

countdown(count) ==
    (0 :> (count >= 1)) @@ (1 :> (count >= 2)) @@
    (2 :> (count >= 3)) @@ (3 :> (count >= 4))

\* Faulty variant of winner: the winner is counted up to.
winnerCountdown(winnerNumber) == countdown(winnerNumber)

winner(winnerNumber) == playerReady(winnerNumber)

allActive == (0 :> TRUE) @@ (1 :> TRUE) @@ (2 :> TRUE) @@ (3 :> TRUE)

allOff == (0 :> FALSE) @@ (1 :> FALSE) @@ (2 :> FALSE) @@ (3 :> FALSE)

\* Faulty variant of alternating: the two parities are exchanged.
alternatingExchanged(even) ==
    (0 :> even) @@ (1 :> ~even) @@ (2 :> even) @@ (3 :> ~even)

alternating(even) ==
    (0 :> ~even) @@ (1 :> even) @@ (2 :> ~even) @@ (3 :> even)

\* A number of JavaScript is held in halves, so that the numbers between two
\* integers have a value as well: the integer n is 2n and n + 0.5 is 2n + 1.
Whole(n) == 2 * n

AndAHalf(n) == 2 * n + 1

\* Number.isInteger
isInteger(number) == number % 2 = 0

\* The numbers handed over: -1, -0.5, 0, 0.5, ... up to MaxNumber.
JsNumbers == Whole(-1)..Whole(MaxNumber)

\* Faulty variant of isValidBuzzerNumber: Number.isInteger is not asked.
isValidBuzzerNumberInRange(buzzerNumber) ==
    buzzerNumber >= Whole(1) /\ buzzerNumber <= Whole(4)

isValidBuzzerNumber(buzzerNumber) ==
    /\ buzzerNumber >= Whole(1)
    /\ buzzerNumber <= Whole(4)
    /\ isInteger(buzzerNumber)

\* buzzerNumbers.includes(n)
includes(buzzerNumbers, n) ==
    \E k \in DOMAIN buzzerNumbers : buzzerNumbers[k] = n

\* buzzerNumbers.filter(this.isValidBuzzerNumber)
validNumbers(buzzerNumbers) == SelectSeq(buzzerNumbers, isValidBuzzerNumber)

\* Faulty variant of createLedState: the numbers are taken as channels.
createLedStateOfChannels(buzzerNumbers) ==
    (0 :> includes(validNumbers(buzzerNumbers), Whole(0))) @@
    (1 :> includes(validNumbers(buzzerNumbers), Whole(1))) @@
    (2 :> includes(validNumbers(buzzerNumbers), Whole(2))) @@
    (3 :> includes(validNumbers(buzzerNumbers), Whole(3)))

createLedState(buzzerNumbers) ==
    (0 :> includes(validNumbers(buzzerNumbers), Whole(1))) @@
    (1 :> includes(validNumbers(buzzerNumbers), Whole(2))) @@
    (2 :> includes(validNumbers(buzzerNumbers), Whole(3))) @@
    (3 :> includes(validNumbers(buzzerNumbers), Whole(4)))

\* The numbers of the lists handed to createLedState: 0, 1, 1.5, 3, 4, 5.
ListNumbers ==
    {Whole(0), Whole(1), AndAHalf(1), Whole(3), Whole(4), Whole(5)}

\* The list [1, 0, 3, 5] of the test.
FilteredList == <<Whole(1), Whole(0), Whole(3), Whole(5)>>

\* The lists handed to createLedState.
NumbersToLight ==
    UNION {[1..n -> ListNumbers] : n \in 0..MaxList} \cup {FilteredList}

\* A call of a pattern function or of ledStateToCommand, recorded.
PatternCall(name, input, output) ==
    /\ ledCall' = name
    /\ ledInput' = input
    /\ ledOutput' = output
    /\ UNCHANGED <<decoderVars, streamVars, written, writeReturned, showVars,
                   waitVars, hidVars>>

LedStateToCommand ==
    \E ledState \in LedStates :
        PatternCall("ledStateToCommand", ledState, ledStateToCommand(ledState))

PlayerReady ==
    \E n \in Numbers : PatternCall("playerReady", n, playerReady(n))

Countdown ==
    \E n \in Numbers : PatternCall("countdown", n, countdown(n))

Winner ==
    \E n \in Numbers : PatternCall("winner", n, winner(n))

AllActive == PatternCall("allActive", <<>>, allActive)

AllOff == PatternCall("allOff", <<>>, allOff)

Alternating ==
    \E even \in BOOLEAN : PatternCall("alternating", even, alternating(even))

IsValidBuzzerNumber ==
    \E number \in JsNumbers :
        PatternCall("isValidBuzzerNumber", number, isValidBuzzerNumber(number))

CreateLedState ==
    \E buzzerNumbers \in NumbersToLight :
        PatternCall("createLedState", buzzerNumbers,
                    createLedState(buzzerNumbers))

NextPatterns ==
    \/ IsValidBuzzerNumber
    \/ CreateLedState
    \/ LedStateToCommand
    \/ PlayerReady
    \/ Countdown
    \/ Winner
    \/ AllActive
    \/ AllOff
    \/ Alternating

SpecPatterns == DecoderInit /\ [][NextPatterns]_vars

----------------------------------------------------------------------------
(* The LED methods of BuzzControllerInstance.  A method comes to the list  *)
(* of device.write calls it makes: none without a device, else one.        *)

\* sendLedCommand down to device.write: the handle written to and the bytes.
sendLedCommand(dev, command) ==
    IF dev = NoDevice THEN <<>>
    ELSE <<[handle |-> dev, command |-> command]>>

\* The values writeToHidDevice returns to sendLedCommand, n being what it
\* returns when called: it is not called without a device.
sendLedCommandResult(dev, n) == IF dev = NoDevice THEN <<>> ELSE <<n>>

\* Faulty variant of sendLedCommandReturns: a write of no byte is a success.
sendLedCommandReturnsUnlessFailed(dev, n) ==
    IF dev = NoDevice THEN FALSE ELSE n >= 0

\* What sendLedCommand returns: false without a device, else result > 0.
sendLedCommandReturns(dev, n) ==
    IF dev = NoDevice THEN FALSE ELSE n > 0

lightAllLedsCommand == <<0, 0, 255, 255, 255, 255>>

turnOffAllLedsCommand == <<0, 0, 0, 0, 0, 0>>

\* Faulty variant of setLedStatesCommand: the header is left out.
setLedStatesCommandBare(ledState) ==
    <<IF 0 \in DOMAIN ledState /\ ledState[0] THEN 255 ELSE 0,
      IF 1 \in DOMAIN ledState /\ ledState[1] THEN 255 ELSE 0,
      IF 2 \in DOMAIN ledState /\ ledState[2] THEN 255 ELSE 0,
      IF 3 \in DOMAIN ledState /\ ledState[3] THEN 255 ELSE 0>>

\* The command array setLedStates builds.
setLedStatesCommand(ledState) ==
    <<0, 0,
      IF 0 \in DOMAIN ledState /\ ledState[0] THEN 255 ELSE 0,
      IF 1 \in DOMAIN ledState /\ ledState[1] THEN 255 ELSE 0,
      IF 2 \in DOMAIN ledState /\ ledState[2] THEN 255 ELSE 0,
      IF 3 \in DOMAIN ledState /\ ledState[3] THEN 255 ELSE 0>>

\* The ledState lightSpecificBuzzers builds.
specificBuzzersState(buzzerNumbers) ==
    (0 :> includes(buzzerNumbers, 1)) @@ (1 :> includes(buzzerNumbers, 2)) @@
    (2 :> includes(buzzerNumbers, 3)) @@ (3 :> includes(buzzerNumbers, 4))

lightAllLeds(dev) == sendLedCommand(dev, lightAllLedsCommand)

turnOffAllLeds(dev) == sendLedCommand(dev, turnOffAllLedsCommand)

setLedStates(dev, ledState) ==
    sendLedCommand(dev, setLedStatesCommand(ledState))

lightSpecificBuzzers(dev, buzzerNumbers) ==
    setLedStates(dev, specificBuzzersState(buzzerNumbers))

\* What device.write may come to inside writeToHidDevice: the bytes
\* written, none, or -1 for a write that threw.
WriteResults == {-1, 0, Len(turnOffAllLedsCommand)}

\* The LED states handed to setLedStates, {} and one without channels 1
\* and 3 among them.
StatesToSet ==
    {<<>>, (0 :> TRUE) @@ (2 :> FALSE), alternating(TRUE)}

\* The lists of buzzer numbers handed over.
NumberLists == {<<>>, <<1, 3>>, <<4, 0, 5, 4>>}

\* An LED method of instance i was called and made the writes ws; n is what
\* writeToHidDevice returned if it was called.
LedMethod(name, input, i, ws, n) ==
    /\ Len(timers) < MaxTimers
    /\ ledCall' = name
    /\ ledInput' = input
    /\ ledOutput' = sendLedCommandReturns(device[i], n)
    /\ written' = ws
    /\ writeReturned' = sendLedCommandResult(device[i], n)
    /\ UNCHANGED <<decoderVars, streamVars, showVars, waitVars, hidVars>>

LightAllLeds(i) ==
    \E n \in WriteResults :
        LedMethod("lightAllLeds", <<>>, i, lightAllLeds(device[i]), n)

TurnOffAllLeds(i) ==
    \E n \in WriteResults :
        LedMethod("turnOffAllLeds", <<>>, i, turnOffAllLeds(device[i]), n)

SetLedStates(i) ==
    \E n \in WriteResults : \E ledState \in StatesToSet :
        LedMethod("setLedStates", ledState, i,
                  setLedStates(device[i], ledState), n)

LightSpecificBuzzers(i) ==
    \E n \in WriteResults : \E buzzerNumbers \in NumberLists :
        LedMethod("lightSpecificBuzzers", buzzerNumbers, i,
                  lightSpecificBuzzers(device[i], buzzerNumbers), n)

----------------------------------------------------------------------------
(* Timers.  Time is counted in units of 250 ms, the shortest delay of the  *)
(* code.  A pending timer has the units left until it is due; a due timer  *)
(* fires before time goes on, due timers in any order.                     *)

TimeUnit == 250

\* What a timer callback holds on to: the instance, and for a blinkBuzzers
\* call its local variables, left being the time to endTime as the await
\* began and every its interval.
Closure(i, buzzerNumbers, isOn, left, every) ==
    [instance |-> i, numbers |-> buzzerNumbers, isOn |-> isOn,
     left |-> left, every |-> every]

ShowClosure(i) == Closure(i, <<>>, FALSE, 0, 0)

\* setTimeout(callback, delay): a timer no variable refers to.
Timeout(kind, delay, closure) ==
    [id |-> NoTimer, kind |-> kind, due |-> delay \div TimeUnit,
     closure |-> closure]

\* setInterval(callback, delay): the Timeout object is the id.
Interval(id, kind, delay, closure) ==
    [id |-> id, kind |-> kind, due |-> delay \div TimeUnit,
     closure |-> closure]

\* The Timeout object setInterval returns, told from the pending timers and
\* from what the variables of the shows refer to: the least number free.
NewTimer ==
    CHOOSE id \in 1..(Len(timers) + 4) :
        /\ id \notin {timers[k].id : k \in DOMAIN timers}
        /\ id \notin {blinkLedsInterval, blinkEveryOtherLedInterval,
                       binaryCountingInterval}
        /\ \A less \in 1..(id - 1) :
              \/ less \in {timers[k].id : k \in DOMAIN timers}
              \/ less \in {blinkLedsInterval, blinkEveryOtherLedInterval,
                            binaryCountingInterval}

\* Faulty variant of closed: close() leaves the interval running.
closedKept(ts, id) == ts

\* interval.close() of the interval a variable refers to, if it does.
closed(ts, id) ==
    IF id = NoTimer THEN ts ELSE SelectSeq(ts, LAMBDA t : t.id # id)

\* The timers without the one at place k, a timeout that has fired.
Fired(ts, k) == SubSeq(ts, 1, k - 1) \o SubSeq(ts, k + 1, Len(ts))

\* The timers with the interval at place k set again.
Rearmed(ts, k, delay) == [ts EXCEPT ![k].due = delay \div TimeUnit]

\* The device of the instance a callback holds on to, as it fires.
DeviceOf(closure) == device[closure.instance]

\* A callback or a show function ran: its writes and the timers it leaves.
Ran(name, ws, ts) ==
    /\ ledCall' = name
    /\ ledInput' = <<>>
    /\ ledOutput' = <<>>
    /\ written' = ws
    /\ writeReturned' = <<>>
    /\ timers' = ts
    /\ UNCHANGED <<decoderVars, streamVars, waitVars, hidVars>>

\* Time goes on by one unit: no timer is due, nothing is called and
\* nothing written.
Advance ==
    /\ timers # <<>>
    /\ \A k \in DOMAIN timers : timers[k].due > 0
    /\ Ran("none", <<>>,
           [k \in DOMAIN timers |-> [timers[k] EXCEPT !.due = @ - 1]])
    /\ UNCHANGED <<blinkLedsInterval, blinkEveryOtherLedInterval,
                   binaryCountingInterval, binaryCounter>>

Due(k, kind) == timers[k].due = 0 /\ timers[k].kind = kind

----------------------------------------------------------------------------
(* blinkBuzzers: one pass of its loop up to the await, the rest when the   *)
(* timer of the await fires.                                               *)

BlinkDurations == {d * TimeUnit : d \in 0..MaxDuration}

BlinkIntervals == {TimeUnit}

\* Faulty variant of blinkPass: the buzzers are lit first.
blinkPassLitFirst(dev, closure) ==
    IF closure.isOn THEN turnOffAllLeds(dev)
    ELSE lightSpecificBuzzers(dev, closure.numbers)

\* if (isOn) lightSpecificBuzzers(buzzerNumbers) else turnOffAllLeds()
blinkPass(dev, closure) ==
    IF closure.isOn THEN lightSpecificBuzzers(dev, closure.numbers)
    ELSE turnOffAllLeds(dev)

\* The call as it reaches the loop test with left to go: a pass and an
\* await, or the last turnOffAllLeds.
blinkLoop(name, ts, dev, closure) ==
    IF closure.left > 0
    THEN Ran(name, blinkPass(dev, closure),
             Append(ts, Timeout("blinkBuzzers", closure.every,
                                [closure EXCEPT !.isOn = ~closure.isOn])))
    ELSE Ran(name, turnOffAllLeds(dev), ts)

BlinkBuzzers(i) ==
    \E buzzerNumbers \in NumberLists :
    \E duration \in BlinkDurations : \E interval \in BlinkIntervals :
        /\ Len(timers) < MaxTimers
        /\ blinkLoop("blinkBuzzers", timers, device[i],
                     Closure(i, buzzerNumbers, FALSE, duration, interval))
        /\ UNCHANGED <<blinkLedsInterval,
                       blinkEveryOtherLedInterval, binaryCountingInterval,
                       binaryCounter>>

BlinkBuzzersResumes(k) ==
    /\ Due(k, "blinkBuzzers")
    /\ blinkLoop("blinkBuzzers resumed", Fired(timers, k),
                 DeviceOf(timers[k].closure),
                 [timers[k].closure EXCEPT !.left = @ - timers[k].closure.every])
    /\ UNCHANGED <<blinkLedsInterval,
                   blinkEveryOtherLedInterval, binaryCountingInterval,
                   binaryCounter>>

----------------------------------------------------------------------------
(* The light shows of the playground and their timers. *)

\* The instance the playground makes.
PlaygroundInstances == {"a"}

\* Blink all.
stopBlinkAllLedsWrites(dev) ==
    IF blinkLedsInterval # NoTimer THEN turnOffAllLeds(dev) ELSE <<>>

StopBlinkAllLeds(i) ==
    /\ Ran("stopBlinkAllLeds", stopBlinkAllLedsWrites(device[i]),
           closed(timers, blinkLedsInterval))
    /\ blinkLedsInterval' = NoTimer
    /\ UNCHANGED <<blinkEveryOtherLedInterval,
                   binaryCountingInterval, binaryCounter>>

StartBlinkAllLeds(i) ==
    /\ Len(closed(timers, blinkLedsInterval)) < MaxTimers
    /\ Ran("startBlinkAllLeds",
           stopBlinkAllLedsWrites(device[i]) \o lightAllLeds(device[i]),
           closed(timers, blinkLedsInterval)
               \o <<Timeout("blinkAllFirstOff", 250, ShowClosure(i)),
                    Interval(NewTimer, "blinkAllTick", 500,
                             ShowClosure(i))>>)
    /\ blinkLedsInterval' = NewTimer
    /\ UNCHANGED <<blinkEveryOtherLedInterval, binaryCountingInterval,
                   binaryCounter>>

\* if (blinkLedsInterval) controllerInstance.turnOffAllLeds()
BlinkAllFirstOff(k) ==
    /\ Due(k, "blinkAllFirstOff")
    /\ Ran("blinkAllFirstOff",
           IF blinkLedsInterval # NoTimer
           THEN turnOffAllLeds(DeviceOf(timers[k].closure)) ELSE <<>>,
           Fired(timers, k))
    /\ UNCHANGED <<blinkLedsInterval, blinkEveryOtherLedInterval,
                   binaryCountingInterval, binaryCounter>>

BlinkAllTick(k) ==
    /\ Due(k, "blinkAllTick")
    /\ Ran("blinkAllTick", lightAllLeds(DeviceOf(timers[k].closure)),
           Append(Rearmed(timers, k, 500),
                  Timeout("blinkAllOff", 250, timers[k].closure)))
    /\ UNCHANGED <<blinkLedsInterval, blinkEveryOtherLedInterval,
                   binaryCountingInterval, binaryCounter>>

\* Faulty variant of BlinkAllOff: the delayed callback lights the LEDs.
BlinkAllOffLights(k) ==
    /\ Due(k, "blinkAllOff")
    /\ Ran("blinkAllOff", lightAllLeds(DeviceOf(timers[k].closure)),
           Fired(timers, k))
    /\ UNCHANGED <<blinkLedsInterval, blinkEveryOtherLedInterval,
                   binaryCountingInterval, binaryCounter>>

\* setTimeout(() => controllerInstance.turnOffAllLeds(), 250) fires.
BlinkAllOff(k) ==
    /\ Due(k, "blinkAllOff")
    /\ Ran("blinkAllOff", turnOffAllLeds(DeviceOf(timers[k].closure)),
           Fired(timers, k))
    /\ UNCHANGED <<blinkLedsInterval, blinkEveryOtherLedInterval,
                   binaryCountingInterval, binaryCounter>>

\* Blink every other.
stopBlinkEveryOtherLedWrites(dev) ==
    IF blinkEveryOtherLedInterval # NoTimer THEN turnOffAllLeds(dev) ELSE <<>>

StopBlinkEveryOtherLed(i) ==
    /\ Ran("stopBlinkEveryOtherLed", stopBlinkEveryOtherLedWrites(device[i]),
           closed(timers, blinkEveryOtherLedInterval))
    /\ blinkEveryOtherLedInterval' = NoTimer
    /\ UNCHANGED <<blinkLedsInterval, binaryCountingInterval,
                   binaryCounter>>

StartBlinkEveryOtherLed(i) ==
    /\ Len(closed(timers, blinkEveryOtherLedInterval)) < MaxTimers
    /\ Ran("startBlinkEveryOtherLed",
           stopBlinkEveryOtherLedWrites(device[i])
               \o lightSpecificBuzzers(device[i], <<1, 3>>),
           closed(timers, blinkEveryOtherLedInterval)
               \o <<Timeout("everyOtherFirst", 250, ShowClosure(i)),
                    Interval(NewTimer, "everyOtherTick", 500,
                             ShowClosure(i))>>)
    /\ blinkEveryOtherLedInterval' = NewTimer
    /\ UNCHANGED <<blinkLedsInterval, binaryCountingInterval, binaryCounter>>

\* if (blinkEveryOtherLedInterval) lightSpecificBuzzers([2, 4])
EveryOtherFirst(k) ==
    /\ Due(k, "everyOtherFirst")
    /\ Ran("everyOtherFirst",
           IF blinkEveryOtherLedInterval # NoTimer
           THEN lightSpecificBuzzers(DeviceOf(timers[k].closure), <<2, 4>>)
           ELSE <<>>,
           Fired(timers, k))
    /\ UNCHANGED <<blinkLedsInterval, blinkEveryOtherLedInterval,
                   binaryCountingInterval, binaryCounter>>

EveryOtherTick(k) ==
    /\ Due(k, "everyOtherTick")
    /\ Ran("everyOtherTick",
           lightSpecificBuzzers(DeviceOf(timers[k].closure), <<1, 3>>),
           Append(Rearmed(timers, k, 500),
                  Timeout("everyOtherSecond", 250, timers[k].closure)))
    /\ UNCHANGED <<blinkLedsInterval, blinkEveryOtherLedInterval,
                   binaryCountingInterval, binaryCounter>>

EveryOtherSecond(k) ==
    /\ Due(k, "everyOtherSecond")
    /\ Ran("everyOtherSecond",
           lightSpecificBuzzers(DeviceOf(timers[k].closure), <<2, 4>>),
           Fired(timers, k))
    /\ UNCHANGED <<blinkLedsInterval, blinkEveryOtherLedInterval,
                   binaryCountingInterval, binaryCounter>>

\* Binary counting.
\* The buzzers of the bits set in the counter: i + 1 for bit i.
buzzersToLight(counter) ==
    SelectSeq(<<1, 2, 3, 4>>,
              LAMBDA n : (counter \div (2 ^ (n - 1))) % 2 = 1)

\* The writes of updateBinaryLights.
updateBinaryLights(dev, counter) ==
    turnOffAllLeds(dev)
        \o (IF Len(buzzersToLight(counter)) > 0
            THEN lightSpecificBuzzers(dev, buzzersToLight(counter))
            ELSE <<>>)

stopBinaryLightCountingWrites(dev) ==
    IF binaryCountingInterval # NoTimer THEN turnOffAllLeds(dev) ELSE <<>>

StopBinaryLightCounting(i) ==
    /\ Ran("stopBinaryLightCounting",
           stopBinaryLightCountingWrites(device[i]),
           closed(timers, binaryCountingInterval))
    /\ binaryCounter' = 0
    /\ binaryCountingInterval' = NoTimer
    /\ UNCHANGED <<blinkLedsInterval, blinkEveryOtherLedInterval>>

StartBinaryLightCounting(i) ==
    /\ Len(closed(timers, binaryCountingInterval)) < MaxTimers
    /\ Ran("startBinaryLightCounting",
           stopBinaryLightCountingWrites(device[i])
               \o updateBinaryLights(device[i], 0),
           closed(timers, binaryCountingInterval)
               \o <<Interval(NewTimer, "binaryTick", 250,
                             ShowClosure(i))>>)
    /\ binaryCounter' = (0 + 1) % 16
    /\ binaryCountingInterval' = NewTimer
    /\ UNCHANGED <<blinkLedsInterval, blinkEveryOtherLedInterval>>

BinaryTick(k) ==
    /\ Due(k, "binaryTick")
    /\ Ran("binaryTick",
           updateBinaryLights(DeviceOf(timers[k].closure), binaryCounter),
           Rearmed(timers, k, 250))
    /\ binaryCounter' = (binaryCounter + 1) % 16
    /\ UNCHANGED <<blinkLedsInterval, blinkEveryOtherLedInterval,
                   binaryCountingInterval>>

NextLeds ==
    \/ \E i \in Instances : connect(i)
    \/ \E i \in Instances : disconnect(i)
    \/ \E i \in PlaygroundInstances : LightAllLeds(i)
    \/ \E i \in PlaygroundInstances : TurnOffAllLeds(i)
    \/ \E i \in PlaygroundInstances : SetLedStates(i)
    \/ \E i \in PlaygroundInstances : LightSpecificBuzzers(i)
    \/ \E i \in PlaygroundInstances : BlinkBuzzers(i)
    \/ \E i \in PlaygroundInstances : StartBlinkAllLeds(i)
    \/ \E i \in PlaygroundInstances : StopBlinkAllLeds(i)
    \/ \E i \in PlaygroundInstances : StartBlinkEveryOtherLed(i)
    \/ \E i \in PlaygroundInstances : StopBlinkEveryOtherLed(i)
    \/ \E i \in PlaygroundInstances : StartBinaryLightCounting(i)
    \/ \E i \in PlaygroundInstances : StopBinaryLightCounting(i)
    \/ \E k \in DOMAIN timers : BlinkBuzzersResumes(k)
    \/ \E k \in DOMAIN timers : BlinkAllFirstOff(k)
    \/ \E k \in DOMAIN timers : BlinkAllTick(k)
    \/ \E k \in DOMAIN timers : BlinkAllOff(k)
    \/ \E k \in DOMAIN timers : EveryOtherFirst(k)
    \/ \E k \in DOMAIN timers : EveryOtherTick(k)
    \/ \E k \in DOMAIN timers : EveryOtherSecond(k)
    \/ \E k \in DOMAIN timers : BinaryTick(k)
    \/ Advance

\* The playground's instance has a device path, the other instance none.
LedInit ==
    /\ Init
    /\ controllerInfo = [i \in Instances |-> i \in PlaygroundInstances]

SpecLeds == LedInit /\ [][NextLeds]_vars

\* blinkBuzzers alone, with time going on and the due timers firing.
NextBlink ==
    \/ \E i \in Instances : connect(i)
    \/ \E i \in Instances : disconnect(i)
    \/ \E i \in PlaygroundInstances : BlinkBuzzers(i)
    \/ \E k \in DOMAIN timers : BlinkBuzzersResumes(k)
    \/ Advance

SpecBlink ==
    /\ LedInit
    /\ [][NextBlink]_vars
    /\ WF_vars(Advance)
    /\ WF_vars(\E k \in DOMAIN timers : BlinkBuzzersResumes(k))

\* The LED methods alone, called on either instance, connected or not, with
\* no show running.
NextMethods ==
    \/ \E i \in Instances : connect(i)
    \/ \E i \in Instances : disconnect(i)
    \/ \E i \in Instances : LightAllLeds(i)
    \/ \E i \in Instances : TurnOffAllLeds(i)
    \/ \E i \in Instances : SetLedStates(i)
    \/ \E i \in Instances : LightSpecificBuzzers(i)

SpecMethods == LedInit /\ [][NextMethods]_vars

\* Faulty variant of specificBuzzersStateOfNumbers: the numbers are taken
\* as channels.
specificBuzzersStateOfChannels(buzzerNumbers) ==
    (0 :> includes(buzzerNumbers, Whole(0))) @@
    (1 :> includes(buzzerNumbers, Whole(1))) @@
    (2 :> includes(buzzerNumbers, Whole(2))) @@
    (3 :> includes(buzzerNumbers, Whole(3)))

\* The ledState lightSpecificBuzzers builds from a list of JavaScript
\* numbers, whole or not, held in halves.
specificBuzzersStateOfNumbers(buzzerNumbers) ==
    (0 :> includes(buzzerNumbers, Whole(1))) @@
    (1 :> includes(buzzerNumbers, Whole(2))) @@
    (2 :> includes(buzzerNumbers, Whole(3))) @@
    (3 :> includes(buzzerNumbers, Whole(4)))

\* The writes that go through.
WritesDone == {n \in WriteResults : n > 0}

\* setLedStates called with any LED state, keys missing or not.
SetAnyLedStates(i) ==
    \E n \in WritesDone : \E ledState \in LedStates :
        LedMethod("setLedStates", ledState, i,
                  setLedStates(device[i], ledState), n)

\* lightSpecificBuzzers called with the lists createLedState is called
\* with.
LightSpecificBuzzersOfNumbers(i) ==
    \E n \in WritesDone : \E buzzerNumbers \in NumbersToLight :
        LedMethod("lightSpecificBuzzers", buzzerNumbers, i,
                  setLedStates(device[i],
                               specificBuzzersStateOfNumbers(buzzerNumbers)),
                  n)

\* The LED methods of the instance of the playground, called with what
\* the encoder is called with, before and after the instance connects.
NextEncoder ==
    \/ \E i \in PlaygroundInstances : connect(i)
    \/ \E i \in PlaygroundInstances : LightAllLeds(i)
    \/ \E i \in PlaygroundInstances : TurnOffAllLeds(i)
    \/ \E i \in PlaygroundInstances : SetAnyLedStates(i)
    \/ \E i \in PlaygroundInstances : LightSpecificBuzzersOfNumbers(i)

SpecEncoder == LedInit /\ [][NextEncoder]_vars

\* The light shows alone: started and stopped in any order on the instance
\* of the playground, connected or not, with time going on and the due
\* timers firing.
NextShows ==
    \/ \E i \in PlaygroundInstances : connect(i)
    \/ \E i \in PlaygroundInstances : disconnect(i)
    \/ \E i \in PlaygroundInstances : StartBlinkAllLeds(i)
    \/ \E i \in PlaygroundInstances : StopBlinkAllLeds(i)
    \/ \E i \in PlaygroundInstances : StartBlinkEveryOtherLed(i)
    \/ \E i \in PlaygroundInstances : StopBlinkEveryOtherLed(i)
    \/ \E i \in PlaygroundInstances : StartBinaryLightCounting(i)
    \/ \E i \in PlaygroundInstances : StopBinaryLightCounting(i)
    \/ \E k \in DOMAIN timers : BlinkAllFirstOff(k)
    \/ \E k \in DOMAIN timers : BlinkAllTick(k)
    \/ \E k \in DOMAIN timers : BlinkAllOff(k)
    \/ \E k \in DOMAIN timers : EveryOtherFirst(k)
    \/ \E k \in DOMAIN timers : EveryOtherTick(k)
    \/ \E k \in DOMAIN timers : EveryOtherSecond(k)
    \/ \E k \in DOMAIN timers : BinaryTick(k)
    \/ Advance

SpecShows == LedInit /\ [][NextShows]_vars

----------------------------------------------------------------------------
(* waitForBuzzController.  Time is counted in the units of the timers; the *)
(* call makes the first poll itself, every later poll is the callback of   *)
(* the one setTimeout of the poll before it, run when it is due.           *)

\* new Promise(...): pending, neither resolve nor reject called.
Pending == [state |-> "pending", value |-> "none", settled |-> 0]

\* resolve(value) or reject(error) called on a promise: the first call
\* settles it, a later one leaves state and value alone.
settle(p, state, value) ==
    IF p.state = "pending"
    THEN [state |-> state, value |-> value, settled |-> 1]
    ELSE [p EXCEPT !.settled = @ + 1]

\* The controllers plugged in, and what detectBuzzControllers may return.
Detections == {<<>>, <<"c1">>, <<"c2", "c1">>}

\* One run of poll: the promise it leaves and whether it calls setTimeout.
pollResolved(p, controllers) ==
    [promise |-> settle(p, "resolved", controllers[1]), setTimeout |-> FALSE]

pollRejected(p) ==
    [promise |-> settle(p, "rejected", "Error"), setTimeout |-> FALSE]

pollAgain(p) == [promise |-> p, setTimeout |-> TRUE]

\* Faulty variant of poll: the timeout is tested before the detection.
pollTimeoutFirst(p, controllers, sinceStart, timeoutMs) ==
    IF sinceStart >= timeoutMs THEN pollRejected(p)
    ELSE IF Len(controllers) > 0 THEN pollResolved(p, controllers)
    ELSE pollAgain(p)

poll(p, controllers, sinceStart, timeoutMs) ==
    IF Len(controllers) > 0 THEN pollResolved(p, controllers)
    ELSE IF sinceStart >= timeoutMs THEN pollRejected(p)
    ELSE pollAgain(p)

\* A run of poll with detectBuzzControllers returning controllers.
Polled(p, controllers, sinceStart, args) ==
    LET ran == poll(p, controllers, sinceStart, args.timeoutMs)
    IN  /\ promise' = ran.promise
        /\ detected' = controllers
        /\ pollTimer' = IF ran.setTimeout
                        THEN <<args.pollIntervalMs \div TimeUnit>>
                        ELSE <<>>
        /\ UNCHANGED <<decoderVars, streamVars, patternVars, written,
                       writeReturned, showVars, hidVars>>

WaitArgs ==
    [timeoutMs : {t * TimeUnit : t \in 0..MaxTimeout},
     pollIntervalMs : {t * TimeUnit : t \in 1..MaxPoll}]

\* waitForBuzzController(timeoutMs, pollIntervalMs), its first poll
\* included.  A new call is made once the promise of the last is settled.
WaitForBuzzController ==
    /\ promise.state # "pending"
    /\ \E args \in WaitArgs : \E controllers \in Detections :
          /\ waitArgs' = args
          /\ elapsed' = 0
          /\ Polled(Pending, controllers, 0, args)

\* The timer of poll is due: poll runs again.
PollTimer ==
    /\ pollTimer # <<>>
    /\ pollTimer[1] = 0
    /\ \E controllers \in Detections :
          Polled(promise, controllers, elapsed, waitArgs)
    /\ UNCHANGED <<waitArgs, elapsed>>

\* Time goes on by one unit, the timer not being due.
WaitTick ==
    /\ pollTimer # <<>>
    /\ pollTimer[1] > 0
    /\ elapsed' = elapsed + TimeUnit
    /\ pollTimer' = <<pollTimer[1] - 1>>
    /\ UNCHANGED <<promise, waitArgs, detected>>
    /\ UNCHANGED <<decoderVars, streamVars, patternVars, written,
                   writeReturned, showVars, hidVars>>

NextWait ==
    \/ WaitForBuzzController
    \/ PollTimer
    \/ WaitTick

\* Time goes on and a due timer fires.
SpecWait ==
    /\ LedInit
    /\ [][NextWait]_vars
    /\ WF_vars(PollTimer)
    /\ WF_vars(WaitTick)

----------------------------------------------------------------------------
(* What the claims speak of, read off the report and the snapshot. *)

\* The locus bit of a report of at least 5 bytes.
ReportBit(buffer, locus) ==
    LET mapping == CONTROLLER_BIT_MAPPING[locus[1]][locus[2]]
    IN  (buffer[mapping.byte + 1] \div (2 ^ mapping.bit)) % 2 = 1

\* The snapshot holds the locus as pressed (never observed: unpressed).
Held(states, locus) ==
    LET key == stateKey(locus[1], locus[2])
    IN  key \in DOMAIN states /\ states[key]

EventOf(locus, action) ==
    [controller |-> locus[1], button |-> locus[2],
     buttonName |-> BUTTON_NAMES[locus[2]], action |-> action]

\* The places of the returned list that hold an event of the locus.
EventsFor(ret, locus) ==
    {i \in DOMAIN ret.events :
        /\ ret.events[i].controller = locus[1]
        /\ ret.events[i].button = locus[2]}

Emits(ret, locus, action) ==
    \E i \in EventsFor(ret, locus) : ret.events[i].action = action

Parsed == op = "parseButtonPress"

ValidCall == Parsed /\ Len(data) >= 5

RejectedCall == Parsed /\ Len(data) < 5

\* No locus of the report differs from the snapshot.
NoTransition(states, buffer) ==
    \A l \in AllLoci : ReportBit(buffer, l) = Held(states, l)

\* The two reports differ in the bit of locus l and in no other locus bit.
OnlyDiffers(old, new, l) ==
    \A x \in AllLoci : (ReportBit(old, x) # ReportBit(new, x)) <=> (x = l)

\* The loci, controller ascending and button ascending.
LociAscending ==
    [i \in 1..Cardinality(AllLoci) |->
        <<(i - 1) \div Cardinality(DOMAIN BUTTON_NAMES),
          (i - 1) % Cardinality(DOMAIN BUTTON_NAMES)>>]

\* The bit of a locus in the last report of at least 5 bytes, if any.
SeenBit(buffer, l) == Len(buffer) >= 5 /\ ReportBit(buffer, l)

\* The events that tell report new from report old, the report before it.
EdgeEvents(old, new) ==
    LET changed == SelectSeq(LociAscending,
                             LAMBDA l : SeenBit(old, l) # SeenBit(new, l))
    IN  [i \in DOMAIN changed |->
            EventOf(changed[i],
                    IF SeenBit(new, changed[i]) THEN "pressed" ELSE "released")]

----------------------------------------------------------------------------
(* The claims about parseButtonPress. *)

\* C1: on a report of at least 5 bytes, a 'pressed' event is emitted for a
\* locus exactly when its bit is set and the snapshot held it unpressed (or
\* had never observed it), a 'released' event exactly when its bit is clear
\* and the snapshot held it pressed, and no event for an unchanged locus.
C1_EventsExactlyOnEdges ==
    ValidCall =>
        /\ \A l \in AllLoci :
            /\ Emits(result, l, "pressed")
                   <=> (ReportBit(data, l) /\ ~Held(before, l))
            /\ Emits(result, l, "released")
                   <=> (~ReportBit(data, l) /\ Held(before, l))
            /\ (ReportBit(data, l) = Held(before, l))
                   => EventsFor(result, l) = {}
            /\ Cardinality(EventsFor(result, l)) <= 1
        /\ \A i \in DOMAIN result.events :
            /\ <<result.events[i].controller, result.events[i].button>>
                   \in AllLoci
            /\ result.events[i].action \in {"pressed", "released"}

\* One call that presses a locus, releases another and leaves a third held.
C1_Witness ==
    /\ ValidCall
    /\ \E l1, l2, l3 \in AllLoci :
        /\ Emits(result, l1, "pressed")
        /\ Emits(result, l2, "released")
        /\ Held(before, l3) /\ ReportBit(data, l3)

\* C2: after a call on a report of at least 5 bytes the snapshot holds, for
\* each of the 20 loci, exactly the bit of that locus in the report, whether
\* or not the locus changed or an event was emitted.
C2_SnapshotIsReport ==
    ValidCall =>
        /\ DOMAIN previousButtonStates = AllKeys
        /\ \A l \in AllLoci :
            previousButtonStates[stateKey(l[1], l[2])] = ReportBit(data, l)

\* A call that emitted nothing although a button is held down.
C2_Witness ==
    /\ ValidCall
    /\ result.null
    /\ \E l \in AllLoci : ReportBit(data, l)

\* C3: when between two consecutive calls one locus goes from unpressed to
\* pressed and no other locus bit changes, the second call returns exactly
\* one event, 'pressed' for that locus; when the bit is cleared again the
\* call returns exactly one event, 'released' for that locus.
C3_SingleFlipSingleEvent ==
    [][(ValidCall /\ ValidCall') =>
          \A l \in AllLoci :
              OnlyDiffers(data, data', l) =>
                  result' = EventList(<<EventOf(l,
                      IF ReportBit(data', l) THEN "pressed" ELSE "released")>>)
      ]_vars

\* A button of controller 3 was pressed alone and has just been released.
C3_Witness ==
    /\ ValidCall
    /\ \E l \in AllLoci :
        /\ l[1] = 3
        /\ Held(before, l)
        /\ \A x \in AllLoci : Held(before, x) => x = l
        /\ \A x \in AllLoci : ~ReportBit(data, x)
        /\ result = EventList(<<EventOf(l, "released")>>)

\* C4: for a report of at least 5 bytes in which no locus differs from the
\* snapshot, the call returns no events and the snapshot after it equals the
\* snapshot before it, locus by locus (never observed counting as unpressed).
C4_NoTransitionNoEffect ==
    (ValidCall /\ NoTransition(before, data)) =>
        /\ result.events = <<>>
        /\ \A l \in AllLoci : Held(previousButtonStates, l) = Held(before, l)

\* A report repeated while two buttons are held down.
C4_Witness ==
    /\ ValidCall
    /\ NoTransition(before, data)
    /\ Cardinality({l \in AllLoci : Held(before, l)}) >= 2

\* C5: the events returned by one call are ordered by controller ascending
\* and, within a controller, by button ascending, whatever bits changed; the
\* order is not that of the bit positions.
C5_EventOrder ==
    Parsed =>
        \A i, j \in DOMAIN result.events :
            i < j =>
                \/ result.events[i].controller < result.events[j].controller
                \/ /\ result.events[i].controller = result.events[j].controller
                   /\ result.events[i].button < result.events[j].button

\* Two events of one call, the first for the higher bit of the report.
C5_Witness ==
    /\ ValidCall
    /\ \E i, j \in DOMAIN result.events :
        /\ i < j
        /\ BitPosition(<<result.events[i].controller, result.events[i].button>>)
            > BitPosition(<<result.events[j].controller, result.events[j].button>>)

\* C6: on a buffer of fewer than 5 bytes, the empty one included, the call
\* returns null and no event, whatever the snapshot holds.
C6_ShortBufferRejected ==
    RejectedCall => result = Null

\* A 4-byte buffer with a button bit set, parsed while a button is held.
C6_Witness ==
    /\ RejectedCall
    /\ Len(data) = 4
    /\ data[3] # 0
    /\ \E l \in AllLoci : Held(before, l)

\* C7: a rejected call leaves the snapshot as it is, so the events of a
\* report of at least 5 bytes are those that tell it from the last such
\* report before it, however many short buffers came in between.
C7_RejectedIsNoOp ==
    [][Parsed' =>
          /\ Len(data') < 5 =>
                /\ previousButtonStates' = previousButtonStates
                /\ result'.events = <<>>
          /\ Len(data') >= 5 => result'.events = EdgeEvents(lastValid, data')
      ]_vars

\* A short buffer was parsed while the snapshot holds a button as pressed.
C7_Witness ==
    /\ RejectedCall
    /\ lastValid # <<>>
    /\ \E l \in AllLoci : Held(previousButtonStates, l)

\* C8, as claimed: the result for a rejected report differs from the result
\* for a report of at least 5 bytes in which no button changed.
C8_RejectionDistinguishable ==
    [][(RejectedCall /\ ValidCall' /\ NoTransition(previousButtonStates, data'))
          => result' # result]_vars

\* C8, amended: the call returns null both for a rejected report and for a
\* report of at least 5 bytes in which no button changed, and a list only
\* when it holds at least one event: the return value tells 'some event'
\* from 'no event', not 'no usable data' from 'no button changed'.
C8_NullForRejectedAndUnchanged ==
    Parsed =>
        /\ result.null <=> (Len(data) < 5 \/ NoTransition(before, data))
        /\ result.null => result = Null
        /\ ~result.null => Len(result.events) >= 1

\* A report with no change, held button or not, answered with null.
C8_Witness ==
    /\ ValidCall
    /\ NoTransition(before, data)
    /\ result = Null

----------------------------------------------------------------------------
(* The claims about the decoder and its input streams. *)

\* C9: decoder state is private to one input stream: however the reports of
\* two connected instances with parsed listeners interleave, the events
\* delivered for a report are those a decoder fed with the reports of that
\* instance alone delivers.
C9_StreamsIndependent ==
    delivered = expected

----------------------------------------------------------------------------
(* The claims about reset and isValidButtonPress. *)

IsValidCalled == op = "isValidButtonPress"

\* The report in which no locus bit is set.
AllClear(buffer) ==
    Len(buffer) >= 5 /\ \A l \in AllLoci : ~ReportBit(buffer, l)

\* C11: the decoder has a reset that sets all 20 loci to unpressed without
\* emitting any event.  The one way the module offers to clear the snapshot
\* is the call its tests make for it, parseButtonPress on the report with no
\* button bit set: that call emits nothing.
C11_ResetEmitsNothing ==
    (ValidCall /\ AllClear(data)) =>
        /\ result.events = <<>>
        /\ \A l \in AllLoci : ~Held(previousButtonStates, l)

\* C12: isValidButtonPress returns true exactly when the report is not
\* rejected and tells at least one locus from the snapshot, and it leaves the
\* snapshot parseButtonPress leaves; so a second isValidButtonPress call
\* with the same report returns false, and a parseButtonPress call right
\* after it with the same report returns no events.
C12_IsValidIsAParse ==
    [][/\ IsValidCalled' =>
            /\ valid' <=> (/\ Len(data') >= 5
                           /\ ~NoTransition(previousButtonStates, data'))
            /\ Len(data') < 5 => previousButtonStates' = previousButtonStates
            /\ Len(data') >= 5 =>
                  \A l \in AllLoci :
                      Held(previousButtonStates', l) = ReportBit(data', l)
       /\ (IsValidCalled /\ IsValidCalled' /\ data' = data) => ~valid'
       /\ (IsValidCalled /\ Parsed' /\ data' = data) => result'.events = <<>>
      ]_vars

\* isValidButtonPress has just answered false to a report with a button bit
\* set: the report it had answered true to before.
C12_Witness ==
    /\ IsValidCalled
    /\ ~valid
    /\ Len(data) >= 5
    /\ \E l \in AllLoci : ReportBit(data, l) /\ Held(before, l)
    /\ lastValid = data

----------------------------------------------------------------------------
(* The claims about what of a report is read. *)

\* The two buffers agree on byte 2, on byte 3 and on bits 0-3 of byte 4.
SameButtonBytes(a, b) ==
    /\ Len(a) >= 5 /\ Len(b) >= 5
    /\ a[3] = b[3]
    /\ a[4] = b[4]
    /\ a[5] % 16 = b[5] % 16

\* C13: the value returned and the snapshot left depend only on the
\* snapshot found and on the 20 locus bits: any report of at least 5 bytes
\* that agrees with the one parsed on byte 2, byte 3 and bits 0-3 of byte 4
\* gives the same events and the same snapshot, whatever its bytes 0-1, the
\* bits 4-7 of its byte 4 and its bytes after the fifth are.
C13_OnlyLocusBitsRead ==
    ValidCall =>
        \A other \in Reports :
            SameButtonBytes(other, data) =>
                parseButtonPress(before, other)
                    = [ret |-> result, states |-> previousButtonStates]

\* An event came from a 6-byte report with other bytes 0-1 and an empty
\* upper half of byte 4, and a 5-byte report agrees with it on the buttons.
C13_Witness ==
    /\ ValidCall
    /\ Len(data) > 5
    /\ data[1] # 0
    /\ data[5] < 16
    /\ ~result.null
    /\ \E other \in Reports :
        /\ SameButtonBytes(other, data)
        /\ Len(other) = 5
        /\ other[1] # data[1]
        /\ other[5] # data[5]

\* C14, as claimed: a buffer whose length is not exactly 5, shorter or
\* longer, is rejected: no events and the snapshot as it was.
C14_NotFiveBytesRejected ==
    (Parsed /\ Len(data) # 5) =>
        /\ result.events = <<>>
        /\ previousButtonStates = before

\* C14, amended: only a buffer shorter than 5 bytes is rejected; a buffer
\* longer than 5 bytes is decoded as its first 5 bytes are: the events are
\* the edges of those bytes against the snapshot, which they replace.
C14_OnlyShorterRejected ==
    Parsed =>
        /\ Len(data) < 5 =>
              /\ result.events = <<>>
              /\ previousButtonStates = before
        /\ Len(data) > 5 =>
              /\ \A l \in AllLoci :
                    /\ Emits(result, l, "pressed")
                           <=> (ReportBit(data, l) /\ ~Held(before, l))
                    /\ Emits(result, l, "released")
                           <=> (~ReportBit(data, l) /\ Held(before, l))
                    /\ Held(previousButtonStates, l) = ReportBit(data, l)
              /\ parseButtonPress(before, SubSeq(data, 1, 5))
                    = [ret |-> result, states |-> previousButtonStates]

\* A 6-byte report was decoded: it pressed a button and released another.
C14_Witness ==
    /\ Parsed
    /\ Len(data) = 6
    /\ \E l1, l2 \in AllLoci :
        /\ Emits(result, l1, "pressed")
        /\ Emits(result, l2, "released")
        /\ Held(previousButtonStates, l1)

----------------------------------------------------------------------------
(* The claims about the tables. *)

\* The bits of the report the table uses, as <<byte, bit>>.
LocusOf(c, b) ==
    <<CONTROLLER_BIT_MAPPING[c][b].byte, CONTROLLER_BIT_MAPPING[c][b].bit>>

BitsOfController(c) == {LocusOf(c, b) : b \in 0..4}

\* How many of the used bits of the report are set: those of bytes 2 and 3
\* and bits 0-3 of byte 4.
RECURSIVE BitsSet(_)
BitsSet(n) == IF n = 0 THEN 0 ELSE (n % 2) + BitsSet(n \div 2)

UsedBitsSet(buffer) ==
    BitsSet(buffer[3]) + BitsSet(buffer[4]) + BitsSet(buffer[5] % 16)

----------------------------------------------------------------------------
(* The claims about the LED states and commands. *)

\* The LED state in which exactly the channels of the set are lit.
Lit(channels) == [c \in Channels |-> c \in channels]

\* C17: ledStateToCommand is total: for every LED state, channels missing or
\* not, it returns the 6 bytes 0x00, 0x00, b0, b1, b2, b3 with bN = 0xFF
\* when ledState[N] is true and 0x00 otherwise, a missing channel counting
\* as unlit; {0:true,1:false,2:true,3:false} gives [0,0,0xFF,0,0xFF,0] and
\* {} gives six zero bytes.
C17_LedStateToCommand ==
    /\ ledCall = "ledStateToCommand" =>
          /\ Len(ledOutput) = 6
          /\ ledOutput[1] = 0
          /\ ledOutput[2] = 0
          /\ \A n \in Channels :
                ledOutput[n + 3] =
                    IF n \in DOMAIN ledInput THEN (IF ledInput[n] THEN 255 ELSE 0)
                    ELSE 0
    /\ ledStateToCommand(Lit({0, 2})) = <<0, 0, 255, 0, 255, 0>>
    /\ ledStateToCommand(<<>>) = <<0, 0, 0, 0, 0, 0>>

\* The command of a state that has channels 1 and 3 missing.
C17_Witness ==
    /\ ledCall = "ledStateToCommand"
    /\ DOMAIN ledInput = {0, 2}
    /\ ledInput[0] /\ ~ledInput[2]
    /\ ledOutput = <<0, 0, 255, 0, 0, 0>>

\* C19, as claimed: the single-channel constructor, playerReady, given a
\* 0-based channel c in 0..3 lights exactly channel c, and lights nothing
\* given a channel outside 0..3.
C19_SingleIsZeroBased ==
    ledCall = "playerReady" =>
        ledOutput = Lit({ledInput} \cap Channels)

\* C19, amended: playerReady takes a 1-based player number: for n in 1..4
\* it lights exactly channel n - 1 and for any other n no channel, so the
\* command of playerReady(n) has 0xFF in byte n + 1 alone, and is six zero
\* bytes for n outside 1..4; the command of playerReady(3) is
\* [0x00,0x00,0x00,0x00,0xFF,0x00], that of playerReady(2) is
\* [0x00,0x00,0x00,0xFF,0x00,0x00].
C19_SingleIsOneBased ==
    [][(/\ ledCall = "playerReady"
        /\ ledCall' = "ledStateToCommand"
        /\ ledInput' = ledOutput)
          => /\ Len(ledOutput') = 6
             /\ \A k \in 1..6 :
                   ledOutput'[k] =
                       IF ledInput \in 1..4 /\ k = ledInput + 2 THEN 255 ELSE 0
             /\ ledInput = 3 => ledOutput' = <<0, 0, 0, 0, 255, 0>>
             /\ ledInput = 2 => ledOutput' = <<0, 0, 0, 255, 0, 0>>
      ]_vars

\* The command with byte 4 alone at 0xFF, made of the state with channel 2
\* alone lit.
C19_Witness ==
    /\ ledCall = "ledStateToCommand"
    /\ ledInput = Lit({2})
    /\ ledOutput = <<0, 0, 0, 0, 255, 0>>

\* C20: playerReady(n) lights exactly channel n - 1 for n in 1..4 and no
\* channel for any other n; winner(n) equals playerReady(n) for every n.
C20_PlayerReadyAndWinner ==
    /\ ledCall \in {"playerReady", "winner"} =>
          /\ DOMAIN ledOutput = Channels
          /\ \A c \in Channels : ledOutput[c] <=> (ledInput = c + 1)
    /\ playerReady(1) = Lit({0})
    /\ playerReady(2) = Lit({1})
    /\ \A n \in Numbers : winner(n) = playerReady(n)

\* winner(4) has lit channel 3 alone.
C20_Witness ==
    /\ ledCall = "winner"
    /\ ledInput = 4
    /\ ledOutput = Lit({3})

\* n clamped to [0,4].
Clamped(n) == IF n < 0 THEN 0 ELSE IF n > 4 THEN 4 ELSE n

\* The channels an LED state has lit.
LitChannels(ledState) == {c \in DOMAIN ledState : ledState[c]}

\* C21: countdown(n) lights exactly the channels 0..k-1 where k is n clamped
\* to [0,4]: the lit channels form a prefix, none is lit for n <= 0, all are
\* for n >= 4, and the lit set grows monotonically with n.
C21_CountdownPrefix ==
    /\ ledCall = "countdown" =>
          /\ DOMAIN ledOutput = Channels
          /\ LitChannels(ledOutput) = 0..(Clamped(ledInput) - 1)
          /\ ledInput <= 0 => ledOutput = allOff
          /\ ledInput >= 4 => ledOutput = allActive
          /\ \A m \in Numbers :
                m >= ledInput =>
                    LitChannels(ledOutput) \subseteq LitChannels(countdown(m))
    /\ countdown(0) = allOff
    /\ countdown(2) = Lit({0, 1})
    /\ countdown(4) = allActive

\* countdown(3) has lit the channels 0, 1 and 2 and not channel 3.
C21_Witness ==
    /\ ledCall = "countdown"
    /\ ledInput = 3
    /\ ledOutput = Lit({0, 1, 2})

\* C22: alternating lights the channels of one parity and leaves the other
\* parity unlit: alternating(true) lights exactly channels 1 and 3,
\* alternating(false) exactly channels 0 and 2, and on every channel the two
\* results are complements of each other.
C22_AlternatingParity ==
    /\ ledCall = "alternating" =>
          /\ DOMAIN ledOutput = Channels
          /\ LitChannels(ledOutput) = IF ledInput THEN {1, 3} ELSE {0, 2}
          /\ \A c \in Channels : ledOutput[c] <=> ~alternating(~ledInput)[c]
    /\ alternating(TRUE) = Lit({1, 3})
    /\ alternating(FALSE) = Lit({0, 2})

\* alternating(false) has lit the channels 0 and 2.
C22_Witness ==
    /\ ledCall = "alternating"
    /\ ledInput = FALSE
    /\ ledOutput = Lit({0, 2})

\* C23: isValidBuzzerNumber(x) is true exactly for the integers 1, 2, 3 and
\* 4, and false for 0, 5, every other integer and every non-integer, such
\* as 1.5.
C23_ValidBuzzerNumbers ==
    /\ ledCall = "isValidBuzzerNumber" =>
          (ledOutput <=> ledInput \in {Whole(1), Whole(2), Whole(3), Whole(4)})
    /\ ~isValidBuzzerNumber(Whole(0))
    /\ ~isValidBuzzerNumber(Whole(5))
    /\ ~isValidBuzzerNumber(AndAHalf(1))
    /\ \A n \in Numbers : ~isValidBuzzerNumber(AndAHalf(n))

\* isValidBuzzerNumber(3.5) was false.
C23_Witness ==
    /\ ledCall = "isValidBuzzerNumber"
    /\ ledInput = AndAHalf(3)
    /\ ledOutput = FALSE

\* The numbers of a list.
Elements(list) == {list[k] : k \in DOMAIN list}

\* C24: createLedState(numbers) never fails and lights channel i of 0..3
\* exactly when the 1-based number i + 1 occurs in the list; numbers outside
\* 1..4 are ignored, duplicates and order have no effect:
\* createLedState([1,0,3,5]) = createLedState([1,3]) =
\* {0:true,1:false,2:true,3:false}.
C24_CreateLedState ==
    /\ ledCall = "createLedState" =>
          /\ DOMAIN ledOutput = Channels
          /\ \A i \in Channels :
                ledOutput[i] <=> Whole(i + 1) \in Elements(ledInput)
          /\ \A other \in NumbersToLight :
                (Elements(other) \cap {Whole(n) : n \in 1..4}
                    = Elements(ledInput) \cap {Whole(n) : n \in 1..4})
                    => createLedState(other) = ledOutput
    /\ createLedState(FilteredList) = Lit({0, 2})
    /\ createLedState(<<Whole(1), Whole(3)>>) = Lit({0, 2})

\* createLedState([4, 1.5]) has lit channel 3 alone.
C24_Witness ==
    /\ ledCall = "createLedState"
    /\ ledInput = <<Whole(4), AndAHalf(1)>>
    /\ ledOutput = Lit({3})

\* C18: every byte sequence an LED operation writes to the device, the
\* methods lightAllLeds, turnOffAllLeds, setLedStates, lightSpecificBuzzers
\* and blinkBuzzers and the callbacks of the timer-driven shows, is 6 bytes
\* long, starts with 0x00 0x00 and has each of its four channel bytes at
\* 0x00 or 0xFF, after any sequence of operations.
C18_WrittenCommands ==
    \A k \in DOMAIN written :
        /\ Len(written[k].command) = 6
        /\ written[k].command[1] = 0
        /\ written[k].command[2] = 0
        /\ \A j \in 3..6 : written[k].command[j] \in {0, 255}

\* A tick of the binary show wrote the all-off command and then the
\* command with channels 0 and 1 lit.
C18_Witness ==
    /\ ledCall = "binaryTick"
    /\ Len(written) = 2
    /\ written[1].command = <<0, 0, 0, 0, 0, 0>>
    /\ written[2].command = <<0, 0, 255, 255, 0, 0>>

\* An LED method of instance i is called.
LedMethodOf(i) ==
    \/ LightAllLeds(i)
    \/ TurnOffAllLeds(i)
    \/ SetLedStates(i)
    \/ LightSpecificBuzzers(i)

\* C25: every LED operation of BuzzControllerInstance (lightAllLeds,
\* turnOffAllLeds, setLedStates, lightSpecificBuzzers) returns false and
\* writes nothing to any device when the instance is not connected; when
\* connected it performs exactly one write, to the device of the instance,
\* and returns true exactly when that write reports more than 0 bytes
\* written: a failed write, reported as -1, gives false.
C25_LedMethodReturn ==
    [][\A i \in Instances :
          LedMethodOf(i) =>
              IF device[i] = NoDevice
              THEN /\ ledOutput' = FALSE
                   /\ written' = <<>>
                   /\ writeReturned' = <<>>
              ELSE /\ Len(written') = 1
                   /\ written'[1].handle = device[i]
                   /\ Len(writeReturned') = 1
                   /\ ledOutput' = (writeReturned'[1] > 0)
                   /\ writeReturned'[1] = -1 => ledOutput' = FALSE
      ]_vars

\* setLedStates made one write, which failed, and returned false.
C25_Witness ==
    /\ ledCall = "setLedStates"
    /\ Len(written) = 1
    /\ writeReturned = <<-1>>
    /\ ledOutput = FALSE

----------------------------------------------------------------------------
(* The wrapper functions of hid-communication.  A call into node-hid comes *)
(* to a value or to an exception; a wrapper is what its try and catch make *)
(* of that.                                                                *)

\* try { attempt } catch { return caught }
try(attempt, caught) == IF attempt.kind = "throw" THEN caught ELSE attempt

\* The devices node-hid may list: the wired and the wireless Buzz, a mouse
\* and another device of the vendor of the Buzz.
UsbDevices ==
    {[vendorId |-> 1356, productId |-> 2, path |-> "wired"],
     [vendorId |-> 1356, productId |-> 4096, path |-> "wireless"],
     [vendorId |-> 1133, productId |-> 49271, path |-> "mouse"],
     [vendorId |-> 1356, productId |-> 616, path |-> "gamepad"]}

DeviceLists == UNION {[1..n -> UsbDevices] : n \in 0..MaxDevices}

\* devices.map(device => ({ ... })): the fields of each device copied.
mapped(devices) ==
    [k \in DOMAIN devices |->
        [vendorId |-> devices[k].vendorId,
         productId |-> devices[k].productId,
         path |-> devices[k].path]]

\* listUsbDevices, layer being what HID.devices() comes to.
listUsbDevices(layer) ==
    try(IF layer.kind = "throw" THEN Thrown ELSE Returned(mapped(layer.value)),
        Returned(<<>>))

\* toString(16).toUpperCase(): the hexadecimal digits, each held as its
\* value, which is what the upper case letter stands for.
RECURSIVE toString16(_)
toString16(n) ==
    IF n < 16 THEN <<n>> ELSE toString16(n \div 16) \o <<n % 16>>

RECURSIVE padStart(_, _, _)
padStart(string, length, fill) ==
    IF Len(string) >= length THEN string
    ELSE padStart(<<fill>> \o string, length, fill)

\* The known controllers: 054C:0002, 054C:1000 and 054C:0374.
KNOWN_BUZZ_CONTROLLERS ==
    <<[model |-> "Wired Buzz", vid |-> <<0, 5, 4, 12>>, pid |-> <<0, 0, 0, 2>>],
      [model |-> "Wireless Buzz", vid |-> <<0, 5, 4, 12>>,
       pid |-> <<1, 0, 0, 0>>],
      [model |-> "Wireless Variant", vid |-> <<0, 5, 4, 12>>,
       pid |-> <<0, 3, 7, 4>>]>>

\* KNOWN_BUZZ_CONTROLLERS.find(...): the first match, in a list, or none.
findBuzzControllerByVidPid(vid, pid) ==
    LET found == {k \in DOMAIN KNOWN_BUZZ_CONTROLLERS :
                     /\ KNOWN_BUZZ_CONTROLLERS[k].vid = vid
                     /\ KNOWN_BUZZ_CONTROLLERS[k].pid = pid}
    IN  IF found = {} THEN <<>>
        ELSE <<KNOWN_BUZZ_CONTROLLERS[CHOOSE k \in found :
                                          \A other \in found : k <= other]>>

\* The loop of detectBuzzControllers from device k on: what it pushes.
RECURSIVE detectedBuzz(_, _)
detectedBuzz(devices, k) ==
    IF k > Len(devices) THEN <<>>
    ELSE LET vidHex == padStart(toString16(devices[k].vendorId), 4, 0)
             pidHex == padStart(toString16(devices[k].productId), 4, 0)
             buzzController == findBuzzControllerByVidPid(vidHex, pidHex)
         IN  (IF buzzController # <<>>
              THEN <<[device |-> devices[k],
                      model |-> buzzController[1].model,
                      vid |-> buzzController[1].vid,
                      pid |-> buzzController[1].pid]>>
              ELSE <<>>) \o detectedBuzz(devices, k + 1)

\* detectBuzzControllers, layer being what HID.devices() comes to.
detectBuzzControllers(layer) ==
    try(Returned(detectedBuzz(listUsbDevices(layer).value, 1)),
        Returned(<<>>))

\* openHidDevice and openHidDeviceByVidPid, layer being what new HID.HID
\* comes to.
openHidDevice(layer) == try(layer, ReturnedNull)

openHidDeviceByVidPid(layer) == try(layer, ReturnedNull)

\* Faulty variant of closeHidDevice: no try around device.close().
closeHidDeviceBare(layer) == layer

\* closeHidDevice, layer being what device.close() comes to.
closeHidDevice(layer) == try(layer, Undefined)

\* writeToHidDevice, layer being what device.write(data) comes to.
writeToHidDevice(layer) == try(layer, Returned(-1))

\* readFromHidDevice, layer being what device.readSync() comes to.
readFromHidDevice(layer) == try(layer, ReturnedNull)

\* The HID objects handed to the wrappers.
HidObjects == 1..MaxHandles

\* What a call into node-hid comes to: an exception, or the value.
Layer(threw, value) == IF threw THEN Thrown ELSE Returned(value)

\* A wrapper was called.
HidCall(name, input, layer, return) ==
    /\ hidCall' = name
    /\ hidInput' = input
    /\ hidLayer' = layer
    /\ hidReturn' = return
    /\ UNCHANGED <<decoderVars, streamVars, patternVars, written,
                   writeReturned, showVars, waitVars>>

ListUsbDevices ==
    \E threw \in BOOLEAN : \E devices \in DeviceLists :
        HidCall("listUsbDevices", <<>>, Layer(threw, devices),
                listUsbDevices(Layer(threw, devices)))

DetectBuzzControllers ==
    \E threw \in BOOLEAN : \E devices \in DeviceLists :
        HidCall("detectBuzzControllers", <<>>, Layer(threw, devices),
                detectBuzzControllers(Layer(threw, devices)))

OpenHidDevice ==
    \E usb \in UsbDevices :
        \E threw \in BOOLEAN : \E h \in HidObjects :
            HidCall("openHidDevice", <<usb.path>>, Layer(threw, h),
                    openHidDevice(Layer(threw, h)))

OpenHidDeviceByVidPid ==
    \E usb \in UsbDevices :
        \E threw \in BOOLEAN : \E h \in HidObjects :
            HidCall("openHidDeviceByVidPid",
                    <<usb.vendorId, usb.productId>>, Layer(threw, h),
                    openHidDeviceByVidPid(Layer(threw, h)))

CloseHidDevice ==
    \E h \in HidObjects : \E layer \in {Thrown, Undefined} :
        HidCall("closeHidDevice", <<h>>, layer, closeHidDevice(layer))

WriteToHidDevice ==
    \E h \in HidObjects :
        \E command \in {lightAllLedsCommand, turnOffAllLedsCommand} :
            \E threw \in BOOLEAN : \E n \in {0, Len(command)} :
                HidCall("writeToHidDevice", <<h, command>>, Layer(threw, n),
                        writeToHidDevice(Layer(threw, n)))

ReadFromHidDevice ==
    \E h \in HidObjects :
        \E threw \in BOOLEAN : \E buffer \in StreamBuffers :
            HidCall("readFromHidDevice", <<h>>, Layer(threw, buffer),
                    readFromHidDevice(Layer(threw, buffer)))

NextHid ==
    \/ ListUsbDevices
    \/ DetectBuzzControllers
    \/ OpenHidDevice
    \/ OpenHidDeviceByVidPid
    \/ CloseHidDevice
    \/ WriteToHidDevice
    \/ ReadFromHidDevice

SpecHid == LedInit /\ [][NextHid]_vars

----------------------------------------------------------------------------
(* The claim about waitForBuzzController. *)

\* Date.now() - startTime as the last poll read it.
ElapsedAtPoll ==
    IF pollTimer = <<>> THEN elapsed
    ELSE elapsed - (waitArgs.pollIntervalMs - pollTimer[1] * TimeUnit)

\* The promise is settled exactly once and nothing is scheduled after; it
\* is resolved with the first controller of a poll that detected one, and
\* rejected by a poll that detected none at or after the timeout; until
\* then no poll has detected one, and none ran at or after the timeout.
WaitSettled ==
    /\ promise.state = "pending" =>
          /\ promise.settled = 0
          /\ pollTimer # <<>>
          /\ detected = <<>>
          /\ ElapsedAtPoll < waitArgs.timeoutMs
          /\ elapsed = 0 => pollTimer[1] * TimeUnit = waitArgs.pollIntervalMs
    /\ promise.state \in {"resolved", "rejected"} =>
          /\ promise.settled = 1
          /\ pollTimer = <<>>
    /\ promise.state = "resolved" =>
          /\ detected # <<>>
          /\ promise.value = detected[1]
    /\ promise.state = "rejected" =>
          /\ detected = <<>>
          /\ elapsed >= waitArgs.timeoutMs

\* C26: waitForBuzzController settles its promise exactly once and
\* schedules no further poll after settling: it resolves with the first
\* detected controller at the first poll that detects at least one, the
\* first poll running immediately and the detection being tested before the
\* timeout, so that a controller found at a poll after the deadline still
\* resolves; it rejects only at a poll that detects none while the elapsed
\* time is >= timeoutMs; with time advancing it eventually settles.
C26_WaitSettlesOnce ==
    /\ []WaitSettled
    /\ (promise.state = "pending") ~> (promise.state \in {"resolved", "rejected"})

\* A poll after the deadline found two controllers: the promise is
\* resolved with the first of them.
C26_Witness ==
    /\ promise = [state |-> "resolved", value |-> "c2", settled |-> 1]
    /\ detected = <<"c2", "c1">>
    /\ elapsed > waitArgs.timeoutMs
    /\ waitArgs.timeoutMs > 0
    /\ pollTimer = <<>>

----------------------------------------------------------------------------
(* The claim about the wrapper functions. *)

\* C27: no failure of the underlying HID layer escapes the wrapper functions
\* as an exception; each failure is turned into a value: listUsbDevices and
\* detectBuzzControllers return an empty list, openHidDevice and
\* openHidDeviceByVidPid return null, writeToHidDevice returns -1,
\* readFromHidDevice returns null, and closeHidDevice returns normally.
C27_NoExceptionEscapes ==
    hidCall # "none" =>
        /\ hidReturn.kind # "throw"
        /\ hidLayer.kind = "throw" =>
              /\ hidCall \in {"listUsbDevices", "detectBuzzControllers"} =>
                    hidReturn = Returned(<<>>)
              /\ hidCall \in {"openHidDevice", "openHidDeviceByVidPid",
                               "readFromHidDevice"} =>
                    hidReturn = ReturnedNull
              /\ hidCall = "writeToHidDevice" => hidReturn = Returned(-1)
              /\ hidCall = "closeHidDevice" => hidReturn = Undefined

\* device.close() threw and closeHidDevice returned.
C27_Witness ==
    /\ hidCall = "closeHidDevice"
    /\ hidLayer = Thrown
    /\ hidReturn = Undefined

----------------------------------------------------------------------------
(* The claim about blinkBuzzers. *)

\* The writes of a command issued by an instance with the device dev.
Issued(dev, command) ==
    IF dev = NoDevice THEN <<>>
    ELSE <<[handle |-> dev, command |-> command]>>

AllOffCommand == <<0, 0, 0, 0, 0, 0>>

\* The command that lights the buzzers of the list.
LightCommand(numbers) ==
    [j \in 1..6 |-> IF j > 2 /\ (j - 2) \in Elements(numbers) THEN 255 ELSE 0]

\* The timer of the await of a pass made with the closure c, left to go.
Awaited(c, left) ==
    [id |-> NoTimer, kind |-> "blinkBuzzers", due |-> c.every \div TimeUnit,
     closure |-> [c EXCEPT !.isOn = ~c.isOn, !.left = left]]

\* The call issues all-off first and then waits, or ends with it if there
\* is no duration.
BlinkStartsOff ==
    \A i \in PlaygroundInstances :
        BlinkBuzzers(i) =>
            /\ written' = Issued(device[i], AllOffCommand)
            /\ \/ timers' = timers
               \/ /\ Len(timers') = Len(timers) + 1
                  /\ timers'[Len(timers')].closure.isOn
                  /\ timers'[Len(timers')].closure.left > 0

\* After each interval the call issues one command, all-off and the given
\* buzzers in turn, and waits again; once the duration has elapsed it
\* issues all-off and ends.
BlinkAlternates ==
    \A k \in DOMAIN timers :
        BlinkBuzzersResumes(k) =>
            LET c == timers[k].closure
                left == c.left - c.every
            IN  IF left > 0
                THEN /\ written' =
                          Issued(device[c.instance],
                                 IF c.isOn THEN LightCommand(c.numbers)
                                 ELSE AllOffCommand)
                     /\ timers' = Append(Fired(timers, k), Awaited(c, left))
                ELSE /\ written' = Issued(device[c.instance], AllOffCommand)
                     /\ timers' = Fired(timers, k)

\* A call with left to go waits for a timer due in so many units.
Awaiting(left, due) ==
    \E k \in DOMAIN timers :
        /\ timers[k].kind = "blinkBuzzers"
        /\ timers[k].closure.left = left
        /\ timers[k].due = due

\* The units a timer of blinkBuzzers may be from due.
BlinkDues == {every \div TimeUnit - unit : unit \in 0..1, every \in BlinkIntervals}

\* C28: blinkBuzzers(numbers, duration, interval) with interval > 0
\* terminates once the duration has elapsed, and the last LED command it
\* issues is the all-off command; while running it alternates, one command
\* per interval, between all-off and lighting the given buzzers, starting
\* with all-off.
C28_BlinkBuzzers ==
    /\ [][BlinkStartsOff /\ BlinkAlternates]_vars
    /\ [](\A k \in DOMAIN timers :
              timers[k].kind = "blinkBuzzers" =>
                  /\ timers[k].closure.left > 0
                  /\ timers[k].closure.every > 0)
    /\ \A left \in BlinkDurations : \A due \in BlinkDues :
          Awaiting(left, due) ~> ~Awaiting(left, due)

\* The call lit the buzzers 1 and 3 of a connected instance on its second
\* pass and waits for the third.
C28_Witness ==
    /\ ledCall = "blinkBuzzers resumed"
    /\ Len(written) = 1
    /\ written[1].command = <<0, 0, 255, 0, 255, 0>>
    /\ Len(timers) = 1
    /\ ~timers[1].closure.isOn

\* The events of a list, taken in order after the last actions `last`, go
\* on alternating: a 'pressed' comes for a button of which the last event
\* was not 'pressed', a 'released' for one of which it was.
RECURSIVE Alternates(_, _)
Alternates(last, events) ==
    IF events = <<>> THEN TRUE
    ELSE LET key == stateKey(events[1].controller, events[1].button)
         IN  /\ events[1].action \in {"pressed", "released"}
             /\ (events[1].action = "pressed") = (last[key] # "pressed")
             /\ Alternates([last EXCEPT ![key] = events[1].action],
                           Tail(events))

\* The snapshot marks as pressed exactly the buttons of which the most
\* recent event is 'pressed'.
SnapshotIsLastAction ==
    \A locus \in AllLoci :
        Held(previousButtonStates, locus)
            <=> lastAction[stateKey(locus[1], locus[2])] = "pressed"

\* C29: over any sequence of parseButtonPress calls, valid and rejected
\* reports mixed, from the initial state, the events of each (controller,
\* button) alternate pressed, released, pressed, ... beginning with
\* pressed, and at every point the snapshot marks as pressed exactly the
\* buttons whose most recent event is 'pressed'.
C29_EventsAlternate ==
    /\ [][Alternates(lastAction, result'.events)]_vars
    /\ []SnapshotIsLastAction

\* A button was pressed, released and is pressed again, a rejected report
\* having just come in while another button went through press and release.
C29_Witness ==
    /\ Len(data) < 5
    /\ result.null
    /\ lastAction[stateKey(0, 1)] = "pressed"
    /\ lastAction[stateKey(2, 0)] = "released"
    /\ Held(previousButtonStates, <<0, 1>>)
    /\ ~Held(previousButtonStates, <<2, 0>>)
    /\ Held(before, <<0, 1>>)

\* Instance i, having disconnected from a handle and connected to a new
\* one, registers the first parsed listener of the new handle: no report
\* of the new connection has been parsed yet.
StreamRestarts(i) ==
    /\ device[i] # NoDevice
    /\ device' = device
    /\ handles[device[i]].listeners = 0
    /\ handles'[device[i]].listeners = 1
    /\ \E h \in DOMAIN handles : handles[h].owner = i /\ ~handles[h].open

\* C30: when a stream restarts, disconnect() followed by connect() and a
\* new parsed listener, the decoder snapshot is all-unpressed again, so
\* that the first report of the new connection yields no 'released' event
\* for a button held when the old connection ended.
C30_ReconnectResetsSnapshot ==
    [][\A i \in Instances :
          StreamRestarts(i) =>
              \A locus \in AllLoci : ~Held(previousButtonStates', locus)]_vars

----------------------------------------------------------------------------
(* The claims about the listeners and the connection of an instance. *)

\* C31: with setupParsedButtonListeners called more than once on the same
\* connected instance, every registered onButtonEvent callback receives
\* the events of every report that changes a button: what the handler
\* that parses the report first hands to its callback, each of the others
\* hands to its own.
C31_EveryCallbackReceives ==
    \A k \in DOMAIN delivered : delivered[k] = delivered[1]

\* Where in the log listener k made the call for report n.
Positions(call, n, k) ==
    {p \in DOMAIN log :
        /\ log[p].call = call
        /\ log[p].report = n
        /\ log[p].listener = k}

\* For the 'data' event at p of the log: each listener of the handle parsed
\* the report once and called onButtonEvent at most once, after the parse;
\* a listener given onRawData called it once with the report, before the
\* parse, and one not given it made no such call.
EachListenerRan(p) ==
    \A k \in 1..log[p].listener :
        /\ Cardinality(Positions("parseButtonPress", log[p].report, k)) = 1
        /\ Cardinality(Positions("onButtonEvent", log[p].report, k)) <= 1
        /\ Cardinality(Positions("onRawData", log[p].report, k))
               = IF onRaw[log[p].handle][k] THEN 1 ELSE 0
        /\ \A q \in Positions("parseButtonPress", log[p].report, k) :
               /\ \A r \in Positions("onRawData", log[p].report, k) :
                      r < q /\ log[r].arg = log[p].arg
               /\ \A r \in Positions("onButtonEvent", log[p].report, k) :
                      r > q

\* onButtonEvent is called with a list that is not empty, and not for a
\* rejected report.
ButtonEventsNotEmpty ==
    \A p \in DOMAIN log :
        log[p].call = "onButtonEvent" =>
            /\ Len(log[p].arg) > 0
            /\ \A q \in DOMAIN log :
                   (log[q].call = "data" /\ log[q].report = log[p].report)
                       => Len(log[q].arg) >= 5

\* The calls are made in the order the reports arrive: those for a report
\* after its 'data' event and before that of the next report.
ArrivalOrder ==
    log' # log =>
        /\ log'[1].call = "data"
        /\ \A p \in DOMAIN log' :
               /\ log'[p].report = ReportsLogged(log) + 1
               /\ p > 1 => log'[p].call # "data"

\* A listener is installed only on the device an instance holds.
InstalledWhenConnected ==
    \A h \in DOMAIN handles :
        handles'[h].listeners # handles[h].listeners =>
            \E i \in Instances : device[i] = h

\* C32: a handler installed by setupParsedButtonListeners calls
\* onButtonEvent at most once per incoming report, only with a non-empty
\* event list (never for a rejected report), and in report arrival order;
\* onRawData, when given, is called for every incoming report, before the
\* report is parsed; on an instance that is not connected no handler is
\* installed.
C32_HandlerCalls ==
    /\ [](\A p \in DOMAIN log : log[p].call = "data" => EachListenerRan(p))
    /\ []ButtonEventsNotEmpty
    /\ [][ArrivalOrder]_vars
    /\ [][InstalledWhenConnected]_vars

\* Two listeners, the second with onRawData: the third report, a button
\* released, had the first call onButtonEvent, and the second onRawData
\* and no onButtonEvent.
C32_Witness ==
    /\ ReportsLogged(log) = 3
    /\ onRaw[log[1].handle] = <<FALSE, TRUE>>
    /\ Len(log) = 5
    /\ log[3].call = "onButtonEvent"
    /\ log[3].arg[1].action = "released"
    /\ log[4].call = "onRawData"
    /\ log[5].call = "parseButtonPress"

\* The instance holds an open device handle, one opened for it.
HoldsOpen(states, opened, i) ==
    /\ states[i] \in DOMAIN opened
    /\ opened[states[i]].open
    /\ opened[states[i]].owner = i

\* The step is a call of the method on an instance i.
CallOf(method, i) ==
    /\ streamCall'.method = method
    /\ streamCall'.instance = i

\* What the calls return and leave.
ConnectionCalls ==
    \A i \in Instances :
        /\ CallOf("isConnected", i) =>
               (streamCall'.returned <=> HoldsOpen(device, handles, i))
        /\ CallOf("connect", i) =>
               /\ streamCall'.returned <=> HoldsOpen(device', handles', i)
               /\ ~controllerInfo[i] =>
                      /\ ~streamCall'.returned
                      /\ handles' = handles
                      /\ device' = device
        /\ CallOf("disconnect", i) =>
               /\ ~HoldsOpen(device', handles', i)
               /\ device'[i] = NoDevice
               /\ ~HoldsOpen(device, handles, i) => handles' = handles

\* C33: after any sequence of connect() and disconnect() calls,
\* isConnected() is true exactly when the instance holds an open device
\* handle: false initially and after every disconnect(), true after a
\* connect() that returned true, false after one that returned false;
\* disconnect() on a disconnected instance closes nothing; connect() on an
\* instance whose controller has no device path returns false and opens
\* nothing.
C33_IsConnected ==
    /\ [](\A i \in Instances :
              /\ isConnected(i) <=> HoldsOpen(device, handles, i)
              /\ streamCall = NoCall => ~isConnected(i))
    /\ [][ConnectionCalls]_vars

\* isConnected() has answered false for an instance that had connected
\* and has disconnected.
C33_Witness ==
    /\ streamCall = MethodCall("isConnected", "a", FALSE)
    /\ \E h \in DOMAIN handles : handles[h].owner = "a" /\ ~handles[h].open
    /\ \A h \in DOMAIN handles : handles[h].owner = "a" => ~handles[h].open

\* C34: an instance never loses track of an open handle: every handle
\* opened by connect() is closed before the instance stops referencing it,
\* so that at most one handle per instance is open at any time, also when
\* connect() is called twice without a disconnect() in between.
C34_NoHandleLost ==
    \A h \in DOMAIN handles :
        handles[h].open => device[handles[h].owner] = h

----------------------------------------------------------------------------
(* The claims about the LED methods and the encoder, and about the light   *)
(* shows.                                                                  *)

\* What the encoder makes of the argument of the method called last.
EncoderCommand ==
    CASE ledCall = "setLedStates" -> ledStateToCommand(ledInput)
      [] ledCall = "lightAllLeds" -> ledStateToCommand(allActive)
      [] ledCall = "turnOffAllLeds" -> ledStateToCommand(allOff)
      [] ledCall = "lightSpecificBuzzers" ->
             ledStateToCommand(createLedState(ledInput))

\* C35: the LED code paths agree with the encoder: setLedStates(s) writes
\* ledStateToCommand(s) for every LED state s, lightAllLeds writes
\* ledStateToCommand(allActive()), turnOffAllLeds writes
\* ledStateToCommand(allOff()), and lightSpecificBuzzers(xs) writes
\* ledStateToCommand(createLedState(xs)) for every list xs, although it
\* does not filter xs.
C35_MethodsAgreeWithEncoder ==
    \A k \in DOMAIN written : written[k].command = EncoderCommand

\* lightSpecificBuzzers([1.5, 4]) wrote the command that lights channel 3
\* alone.
C35_Witness ==
    /\ ledCall = "lightSpecificBuzzers"
    /\ ledInput = <<AndAHalf(1), Whole(4)>>
    /\ Len(written) = 1
    /\ written[1].command = <<0, 0, 0, 0, 0, 255>>

\* The interval timers of a show that are active: those of its tick.
ActiveIntervals(tick) ==
    {timers[k].id : k \in {j \in DOMAIN timers : timers[j].kind = tick}}

\* At most one interval of the show is active, and the variable of the
\* show refers to it, or to none if none is.
OneInterval(variable, tick) ==
    /\ Cardinality({j \in DOMAIN timers : timers[j].kind = tick}) <= 1
    /\ ActiveIntervals(tick) =
           IF variable = NoTimer THEN {} ELSE {variable}

\* C36: for each light show (blink-all, blink-every-other, binary
\* counting), after any sequence of start and stop calls at most one
\* interval timer of the show is active, and the module variable of the
\* show references an interval exactly when one is active: every start
\* closes the interval of a running show first, and stop closes it and
\* sets the variable to null.
C36_OneIntervalPerShow ==
    /\ OneInterval(blinkLedsInterval, "blinkAllTick")
    /\ OneInterval(blinkEveryOtherLedInterval, "everyOtherTick")
    /\ OneInterval(binaryCountingInterval, "binaryTick")

\* The blinking of every other LED was started again while it ran: the
\* start wrote the all-off command of the stop before it lit buzzers 1 and
\* 3, and one interval of the show is active.
C36_Witness ==
    /\ ledCall = "startBlinkEveryOtherLed"
    /\ Len(written) = 2
    /\ written[1].command = <<0, 0, 0, 0, 0, 0>>
    /\ blinkEveryOtherLedInterval # NoTimer
    /\ Cardinality(ActiveIntervals("everyOtherTick")) = 1

\* Every command the step writes is the all-off command.
WritesAllOff == \A j \in DOMAIN written' : written'[j].command = AllOffCommand

\* A timer callback of the blinking of every other LED runs.
EveryOtherCallback ==
    \E k \in DOMAIN timers :
        EveryOtherFirst(k) \/ EveryOtherTick(k) \/ EveryOtherSecond(k)

\* C37: after stopBlinkEveryOtherLed has stopped a running show, no timer
\* callback of that show issues a command that lights an LED, wherever
\* the stop falls between the interval tick and its delayed callback.
C37_NoLightAfterStop ==
    [][(blinkEveryOtherLedInterval = NoTimer /\ EveryOtherCallback)
          => WritesAllOff]_vars

\* A timer callback of the blink-all show runs.
BlinkAllCallback ==
    \E k \in DOMAIN timers :
        BlinkAllFirstOff(k) \/ BlinkAllTick(k) \/ BlinkAllOff(k)

\* A timer callback of the binary counting runs.
BinaryCallback == \E k \in DOMAIN timers : BinaryTick(k)

\* The stop of a running show, called on instance i.
StopsRunning(i) ==
    \/ blinkLedsInterval # NoTimer /\ StopBlinkAllLeds(i)
    \/ binaryCountingInterval # NoTimer /\ StopBinaryLightCounting(i)

\* C38: after stopBlinkAllLeds or stopBinaryLightCounting has stopped a
\* running show, every LED command still issued by a pending callback of
\* that show is the all-off command: the stop itself issues all-off last,
\* so that the LEDs are off after the stop and stay off until a show is
\* started.
C38_OnlyAllOffAfterStop ==
    [][/\ (blinkLedsInterval = NoTimer /\ BlinkAllCallback) => WritesAllOff
       /\ (binaryCountingInterval = NoTimer /\ BinaryCallback) => WritesAllOff
       /\ \A i \in PlaygroundInstances :
              StopsRunning(i) =>
                  /\ written' = Issued(device[i], AllOffCommand)
                  /\ \A k \in DOMAIN timers' :
                         timers'[k].kind \notin {"blinkAllTick", "binaryTick"}
                             \/ /\ timers'[k].kind = "blinkAllTick"
                                /\ blinkLedsInterval' # NoTimer
                             \/ /\ timers'[k].kind = "binaryTick"
                                /\ binaryCountingInterval' # NoTimer
      ]_vars

\* The blink-all show was stopped between a tick of its interval and the
\* delayed callback of the tick, and the callback has now written the
\* all-off command.
C38_Witness ==
    /\ ledCall = "blinkAllOff"
    /\ blinkLedsInterval = NoTimer
    /\ Len(written) = 1
    /\ written[1].command = AllOffCommand
    /\ timers = <<>>

====
